---- MODULE Spec2Model ----
(***************************************************************************)
(* Model of the simulation backend of py-simulation-dashboard:             *)
(*   backend/main.py        the run control surface (start, stop, status)  *)
(*   backend/job_service.py the order/bin scheduling loop (JobService)     *)
(*   backend/simulation_database.py  the persisted run record              *)
(*                                                                         *)
(* Time is the wall clock time.time(), counted in clock ticks of           *)
(* 1/TicksPerSecond seconds; the durations of the duration string and the  *)
(* handling times of the request are whole seconds, as in the request.     *)
(***************************************************************************)
EXTENDS Integers, Sequences, FiniteSets, TLC

\* ------------------------------------------------------------------ bounds

\* The wall clock of the scheduler specifications stops advancing here.
MaxTime == 6
\* The wall clock of the control-surface specification stops advancing here.
MaxRunTime == 3
\* The largest elapsed time, in clock ticks, the lookup specification tries.
MaxElapsed == 720
\* The remote inventory holds the bins 1..NumBins.
NumBins == 2
\* The order names numpy.random.randint can return are 1..NumNames.
NumNames == 2
\* The split specification distributes up to this many bins ...
MaxSplitBins == 7
\* ... over up to this many stations.
MaxSplitStations == 3

\* The layers of the inventory.
NumLayers == 2

\* The iterations of the bisection that are followed.
MaxIterations == 40

\* The clock ticks of a run over a timeline of several phases.
MaxPhaseTime == 8

\* ------------------------------------------------------- program constants

\* time.sleep(0.5) is one clock tick, so a second is two.
TicksPerSecond == 2
\* check_time_interval = 1.0
check_time_interval == 1
\* the unset local normal_operation_start_time, and None in general
Unset == -1

\* max_retries of _get_bins_from_order
max_retries == 20

\* The grid of floating-point numbers: units in 1.0, units between two
\* neighbouring representable numbers.
UnitsPerOne == 3200000

Ulp == 2

\* tolerance: float = 1e-5
tolerance_default == 32

\* A tolerance of half the spacing of the representable numbers.
SmallTolerance == 1

\* alpha_search_range = (0.01, 5)
alpha_search_range == <<32000, 16000000>>

Runs == {1, 2}
Inventory == 1..NumBins
Names == 1..NumNames

\* ----------------------------------------------------------------- helpers

Min(a, b) == IF a <= b THEN a ELSE b
Max(a, b) == IF a >= b THEN a ELSE b

\* math.ceil(a / b) for a >= 0, b > 0
Ceil(a, b) == (a + b - 1) \div b

RECURSIVE SumSeq(_)
SumSeq(s) == IF s = <<>> THEN 0 ELSE Head(s) + SumSeq(Tail(s))

Range(s) == {s[i] : i \in DOMAIN s}

\* ------------------------------------------------- the duration string

\* A string is a sequence of characters.
Digits == <<"0", "1", "2", "3", "4", "5", "6", "7", "8", "9">>

isdigit(c) == \E d \in DOMAIN Digits : Digits[d] = c
isalpha(c) == c \in {"N", "A", "O", "X"}
DigitValue(c) == (CHOOSE d \in DOMAIN Digits : Digits[d] = c) - 1

\* str.split(sep)
RECURSIVE split(_, _, _)
split(s, sep, acc) ==
    IF s = <<>> THEN <<acc>>
    ELSE IF Head(s) = sep THEN <<acc>> \o split(Tail(s), sep, <<>>)
    ELSE split(Tail(s), sep, Append(acc, Head(s)))

\* int(digits)
RECURSIVE int(_, _)
int(s, acc) == IF s = <<>> THEN acc ELSE int(Tail(s), 10 * acc + DigitValue(Head(s)))

\* One (type, duration) pair of self.operations.
parse_segment(segment) ==
    [type |-> SelectSeq(segment, isalpha),
     duration |-> int(SelectSeq(segment, isdigit), 0)]

parse_operations(duration_string) ==
    LET segments == split(duration_string, ";", <<>>)
    IN  [i \in DOMAIN segments |-> parse_segment(segments[i])]

N == <<"N">>
AO == <<"A", "O">>

\* ------------------------------------------------- the operation timeline

\* The loop of _get_current_operation from operation i on, with the
\* durations before i already accumulated. Elapsed time is in clock ticks;
\* the result is the pair (operation, index), the index counted from 1.
RECURSIVE current_operation_from(_, _, _, _)
current_operation_from(operations, elapsed_ticks, i, cumulative_duration) ==
    IF i > Len(operations) THEN <<operations[Len(operations)], Len(operations)>>
    ELSE IF elapsed_ticks < (cumulative_duration + operations[i].duration) * TicksPerSecond
         THEN <<operations[i], i>>
         ELSE current_operation_from(
                  operations, elapsed_ticks, i + 1,
                  cumulative_duration + operations[i].duration)

\* The lookup with an operation still current at its own end time.
RECURSIVE current_operation_from_inclusive(_, _, _, _)
current_operation_from_inclusive(operations, elapsed_ticks, i, cumulative_duration) ==
    IF i > Len(operations) THEN <<operations[Len(operations)], Len(operations)>>
    ELSE IF elapsed_ticks <= (cumulative_duration + operations[i].duration) * TicksPerSecond
         THEN <<operations[i], i>>
         ELSE current_operation_from_inclusive(
                  operations, elapsed_ticks, i + 1,
                  cumulative_duration + operations[i].duration)

get_current_operation_inclusive(operations, elapsed_ticks) ==
    current_operation_from_inclusive(operations, elapsed_ticks, 1, 0)

get_current_operation(operations, elapsed_ticks) ==
    current_operation_from(operations, elapsed_ticks, 1, 0)

\* _get_duration_up_to_current_operation, in seconds, for an index from 1.
get_duration_up_to_current_operation(operations, current_operation_index) ==
    SumSeq([i \in 1..current_operation_index |-> operations[i].duration])

total_simulation_duration(operations) ==
    SumSeq([i \in DOMAIN operations |-> operations[i].duration])

\* ------------------------------------------------------------------- state

VARIABLES
    now,                  \* time.time(), in clock ticks
    job_creation_status,  \* the module-level dict of main.py
    pc,                   \* where each run's background task stands
    body,                 \* each run's JobsCreationRequest
    run,                  \* each run's locals of JobService.create_jobs
    station,              \* each run's station_list (bins, next_job_time, ...)
    database,             \* each run's row of simulation_runs and its session
    sent,                 \* the requests each run sent to SM in its current tick
    tc_stop_calls,        \* the cyclestop requests each run sent to TC
    error,                \* the exception that ended each run, "" when none
    stop_pending,         \* history: a stop was requested during a tick of the run
    probe                 \* the pure function under test, its inputs and result

vars ==
    <<now, job_creation_status, pc, body, run, station, database, sent,
      tc_stop_calls, error, stop_pending, probe>>

\* Everything but the probe.
program_vars ==
    <<now, job_creation_status, pc, body, run, station, database, sent,
      tc_stop_calls, error, stop_pending>>

\* ---------------------------------------------------------------- requests

Station(code, type) == [code |-> code, type |-> type]

StationGroup(group, station_codes) == [group |-> group, station_codes |-> station_codes]

Parameters(inbound_time, outbound_time, inbound_bins_per_order, outbound_bins_per_order, inbound_orders_per_hour, outbound_orders_per_hour) ==
    [inbound_time |-> inbound_time,
     outbound_time |-> outbound_time,
     inbound_bins_per_order |-> inbound_bins_per_order,
     outbound_bins_per_order |-> outbound_bins_per_order,
     inbound_orders_per_hour |-> inbound_orders_per_hour,
     outbound_orders_per_hour |-> outbound_orders_per_hour]

JobsCreationRequest(parameters, duration_string, stations, station_groups) ==
    [parameters |-> parameters,
     duration_string |-> duration_string,
     stations |-> stations,
     station_groups |-> station_groups]

NoRequest == JobsCreationRequest(Parameters(0, 0, 0, 0, 0, 0), <<>>, <<>>, <<>>)

\* StationGroup.stations: the indices into station_list of the stations whose
\* code is one of the group's, in station_list order.
group_stations(request, g) ==
    SelectSeq([i \in DOMAIN request.stations |-> i],
              LAMBDA i : request.stations[i].code
                             \in request.station_groups[g].station_codes)

\* StationGroup.type
group_type(request, g) == request.stations[group_stations(request, g)[1]].type

\* ------------------------------------------------------------ initial state

\* job_creation_status as main.py creates it (None is Unset, no name is 0).
InitialStatus ==
    [start_time |-> Unset, stop_requested |-> FALSE, stop_time |-> Unset,
     simulation_name |-> 0]

\* The locals with is_all_orders_completed false at the start.
InitialLocals_orders_open ==
    [simulation_start_time |-> 0,
     operations |-> <<>>,
     next_check_time |-> 0,
     normal_operation_loop_index |-> 0,
     inbound_advance_orders |-> <<>>,
     outbound_advance_orders |-> <<>>,
     is_all_orders_completed |-> FALSE,
     is_normal_operation_ending |-> FALSE,
     normal_operation_start_time |-> Unset,
     loop_start_time |-> 0,
     current_operation_index |-> 0,
     g |-> 0,
     k |-> 0,
     inbound_left |-> 0,
     outbound_left |-> 0,
     new_inbound |-> <<>>,
     new_outbound |-> <<>>,
     wake |-> 0,
     stamp |-> 0,
     last_consumed |-> [inbound |-> 0, outbound |-> 0],
     advance_order_ran |-> {}]

\* The locals of create_jobs before the loop, and the cursors of the loop:
\* g is the station group being processed, new_inbound and new_outbound the
\* orders _create_advance_orders is building, inbound_left and outbound_left
\* how many it has still to create, stamp and last_consumed the insertion
\* count of the order maps, advance_order_ran the operations whose
\* Advance-order branch has been entered (history only).
InitialLocals ==
    [simulation_start_time |-> 0,
     operations |-> <<>>,
     next_check_time |-> 0,
     normal_operation_loop_index |-> 0,
     inbound_advance_orders |-> <<>>,
     outbound_advance_orders |-> <<>>,
     is_all_orders_completed |-> TRUE,
     is_normal_operation_ending |-> FALSE,
     normal_operation_start_time |-> Unset,
     loop_start_time |-> 0,
     current_operation_index |-> 0,
     g |-> 0,
     k |-> 0,
     inbound_left |-> 0,
     outbound_left |-> 0,
     new_inbound |-> <<>>,
     new_outbound |-> <<>>,
     wake |-> 0,
     stamp |-> 0,
     last_consumed |-> [inbound |-> 0, outbound |-> 0],
     advance_order_ran |-> {}]

\* A Station as JobService builds it: no bins, next_job_time 0, no order name.
InitialStation == [bins |-> <<>>, next_job_time |-> 0, advance_order_name |-> Unset]

\* The row of simulation_runs the dashboard created, and the session on it.
InitialDatabase ==
    [start_timestamp |-> Unset, end_timestamp |-> Unset, end_updates |-> 0,
     session |-> "none", closes |-> 0, simulation_ends_logged |-> FALSE]

NoProbe == [fn |-> "none"]

InitProgram ==
    /\ now = 0
    /\ job_creation_status = InitialStatus
    /\ pc = [r \in Runs |-> "idle"]
    /\ body = [r \in Runs |-> NoRequest]
    /\ run = [r \in Runs |-> InitialLocals]
    /\ station = [r \in Runs |-> <<>>]
    /\ database = [r \in Runs |-> InitialDatabase]
    /\ sent = [r \in Runs |-> <<>>]
    /\ tc_stop_calls = [r \in Runs |-> 0]
    /\ error = [r \in Runs |-> ""]
    /\ stop_pending = [r \in Runs |-> FALSE]

\* ------------------------------------------------------ the control surface

\* The positions of a background task inside one iteration of the loop.
TickPositions ==
    {"branch", "ao_create", "fetch", "group", "call", "poll", "tail", "sleep"}

in_tick(r) == pc[r] \in TickPositions

\* POST /jobs/create: the status is reset, a JobService is built on the request
\* and on the shared status, and create_jobs_and_update_status is queued.
create_jobs(r, request) ==
    /\ pc[r] = "idle"
    /\ \A q \in Runs : q < r => pc[q] # "idle"
    /\ job_creation_status' =
           [start_time |-> Unset, stop_requested |-> FALSE, stop_time |-> Unset,
            simulation_name |-> r]
    /\ body' = [body EXCEPT ![r] = request]
    /\ pc' = [pc EXCEPT ![r] = "queued"]
    /\ UNCHANGED <<now, run, station, database, sent, tc_stop_calls, error,
                   stop_pending, probe>>

\* POST /jobs/stop
stop_jobs ==
    /\ \E r \in Runs : pc[r] # "idle"
    /\ job_creation_status' = [job_creation_status EXCEPT !.stop_requested = TRUE]
    /\ stop_pending' = [r \in Runs |-> stop_pending[r] \/ in_tick(r)]
    /\ UNCHANGED <<now, pc, body, run, station, database, sent, tc_stop_calls,
                   error, probe>>

\* Where a background task waits: in the sleep that ends an iteration, in
\* the sleeps of _get_bins_from_order and _submit_advance_orders.
WaitPositions == {"sleep", "ao_create"}

\* The wall clock advances while some background task waits.
Elapse(limit) ==
    /\ now < limit
    /\ \E r \in Runs : pc[r] \in WaitPositions
    /\ now' = now + 1
    /\ UNCHANGED <<job_creation_status, pc, body, run, station, database, sent,
                   tc_stop_calls, error, stop_pending, probe>>

\* The exception logged, the iteration abandoned, the loop going on.
Raise_and_continue(r, exception) ==
    /\ pc' = [pc EXCEPT ![r] = "sleep"]
    /\ error' = [error EXCEPT ![r] = exception]

\* An exception leaves create_jobs: nothing in create_jobs or in
\* create_jobs_and_update_status catches it, so the background task ends there.
Raise(r, exception) ==
    /\ pc' = [pc EXCEPT ![r] = "aborted"]
    /\ error' = [error EXCEPT ![r] = exception]

\* The background task starts: start_time is set, and create_jobs runs up to
\* its loop (the session is opened, the start timestamp persisted, the
\* stations built, the duration string parsed, the locals initialised).
create_jobs_and_update_status(r) ==
    /\ pc[r] = "queued"
    /\ job_creation_status' = [job_creation_status EXCEPT !.start_time = now]
    /\ database' = [database EXCEPT ![r].session = "open", ![r].start_timestamp = now]
    /\ station' = [station EXCEPT ![r] = [i \in DOMAIN body[r].stations |-> InitialStation]]
    /\ run' = [run EXCEPT ![r] =
                  [InitialLocals EXCEPT
                      !.simulation_start_time = now,
                      !.operations = parse_operations(body[r].duration_string),
                      !.next_check_time = now]]
    /\ pc' = [pc EXCEPT ![r] = "cond"]
    /\ UNCHANGED <<now, body, sent, tc_stop_calls, error, stop_pending, probe>>

\* The condition of the while loop without its comparison of the clock.
loop_continues_ignoring_clock(r) == ~job_creation_status.stop_requested

\* The condition of the while loop.
loop_continues(r) ==
    /\ ~job_creation_status.stop_requested
    /\ now <= run[r].simulation_start_time
                  + total_simulation_duration(run[r].operations) * TicksPerSecond

\* The condition holds: an iteration starts and takes its loop_start_time.
enter_loop(r) ==
    /\ pc[r] = "cond"
    /\ loop_continues(r)
    /\ run' = [run EXCEPT ![r].loop_start_time = now]
    /\ sent' = [sent EXCEPT ![r] = <<>>]
    /\ pc' = [pc EXCEPT ![r] = "branch"]
    /\ UNCHANGED <<now, job_creation_status, body, station, database,
                   tc_stop_calls, error, stop_pending, probe>>

\* The condition fails: control leaves the loop.
exit_loop(r) ==
    /\ pc[r] = "cond"
    /\ ~loop_continues(r)
    /\ pc' = [pc EXCEPT ![r] = "exit"]
    /\ UNCHANGED <<now, job_creation_status, body, run, station, database, sent,
                   tc_stop_calls, error, stop_pending, probe>>

\* The statements after the loop as if they stood in a finally block.
persist_end_finally(r) ==
    /\ pc[r] \in {"exit", "aborted"}
    /\ job_creation_status' = [job_creation_status EXCEPT !.stop_time = now]
    /\ database' = [database EXCEPT
                       ![r].simulation_ends_logged = TRUE,
                       ![r].end_timestamp = now,
                       ![r].end_updates = @ + 1]
    /\ pc' = [pc EXCEPT ![r] = "exit_close"]
    /\ UNCHANGED <<now, body, run, station, sent, tc_stop_calls, error,
                   stop_pending, probe>>

\* After the loop: stop_time, the "Simulation ends" log entry and the end
\* timestamp of the run (end_updates counts the updates asked of the database).
persist_end(r) ==
    /\ pc[r] = "exit"
    /\ job_creation_status' = [job_creation_status EXCEPT !.stop_time = now]
    /\ database' = [database EXCEPT
                       ![r].simulation_ends_logged = TRUE,
                       ![r].end_timestamp = now,
                       ![r].end_updates = @ + 1]
    /\ pc' = [pc EXCEPT ![r] = "exit_close"]
    /\ UNCHANGED <<now, body, run, station, sent, tc_stop_calls, error,
                   stop_pending, probe>>

\* self.simulation_database.close_connection()
close_connection(r) ==
    /\ pc[r] = "exit_close"
    /\ database' = [database EXCEPT ![r].session = "closed", ![r].closes = @ + 1]
    /\ pc' = [pc EXCEPT ![r] = "exit_tc"]
    /\ UNCHANGED <<now, job_creation_status, body, run, station, sent,
                   tc_stop_calls, error, stop_pending, probe>>

\* self._tc_stop(): the request is sent. It is the last statement of
\* create_jobs: whether it returns or raises, the background task ends.
tc_stop(r) ==
    /\ pc[r] = "exit_tc"
    /\ tc_stop_calls' = [tc_stop_calls EXCEPT ![r] = @ + 1]
    /\ pc' = [pc EXCEPT ![r] = "done"]
    /\ UNCHANGED <<now, job_creation_status, body, run, station, database, sent,
                   error, stop_pending, probe>>

\* ------------------------------------------------------------------ BinSource

\* The sequences without repetition of at most n elements of S.
RECURSIVE unique_sequences(_, _)
unique_sequences(S, n) ==
    IF n = 0 THEN {<<>>}
    ELSE LET shorter == unique_sequences(S, n - 1)
         IN  shorter \cup UNION {{Append(q, x) : x \in S \ Range(q)} :
                                    q \in {t \in shorter : Len(t) = n - 1}}

\* What _get_bins_from_order(number_of_bins) can return: [] below one bin;
\* otherwise the bins sampled from the layers' pools, at most number_of_bins of
\* them (each layer gives min(tally, available)), at least one (or it retries),
\* each code once (the final loop keeps first occurrences).
get_bins_from_order(number_of_bins) ==
    IF number_of_bins < 1 THEN {<<>>}
    ELSE unique_sequences(Inventory, number_of_bins) \ {<<>>}

\* Whether _get_bins_from_order(number_of_bins) can raise instead: every one of
\* its max_retries attempts may find no bin.
get_bins_from_order_can_raise(number_of_bins) == number_of_bins >= 1

\* --------------------------------------------------------- the order maps

\* A dict of orders is the sequence of its items in insertion order. An item
\* is [name, bins, stamp]; stamp numbers the insertions of keys (history only).
dict_keys(d) == {d[i].name : i \in DOMAIN d}

\* d[name] = bins: a new key goes last, an existing key keeps its place.
dict_set(d, name, bins, stamp) ==
    IF name \in dict_keys(d)
    THEN [i \in DOMAIN d |-> IF d[i].name = name THEN [d[i] EXCEPT !.bins = bins] ELSE d[i]]
    ELSE Append(d, [name |-> name, bins |-> bins, stamp |-> stamp])

\* d |= e, the items of e stamped from stamp on.
RECURSIVE dict_update(_, _, _)
dict_update(d, e, stamp) ==
    IF e = <<>> THEN d
    ELSE dict_update(dict_set(d, Head(e).name, Head(e).bins, stamp), Tail(e), stamp + 1)

\* d.pop(name)
dict_pop(d, name) == SelectSeq(d, LAMBDA item : item.name # name)

\* next(iter(advance_orders)): the first key in insertion order.
newest_order(advance_orders) == advance_orders[Len(advance_orders)]

oldest_order(advance_orders) == advance_orders[1]

\* ------------------------------------------------------------ the split

\* order_to_share[:n] and order_to_share[n:]
take(s, n) == SubSeq(s, 1, Min(n, Len(s)))
drop(s, n) == SubSeq(s, Min(n, Len(s)) + 1, Len(s))

\* The slices the k stations of a group get of an advance order, in station
\* order: each takes the first number_of_bins_per_station of what is left.
RECURSIVE share_slices(_, _, _)
share_slices(order_to_share, number_of_bins_per_station, k) ==
    IF k = 0 THEN <<>>
    ELSE <<take(order_to_share, number_of_bins_per_station)>>
         \o share_slices(drop(order_to_share, number_of_bins_per_station),
                         number_of_bins_per_station, k - 1)

\* The shares cut with the quotient rounded down.
share_order_floor(order_to_share, number_of_stations_in_group) ==
    share_slices(order_to_share,
                 Len(order_to_share) \div number_of_stations_in_group,
                 number_of_stations_in_group)

share_order(order_to_share, number_of_stations_in_group) ==
    share_slices(order_to_share,
                 Ceil(Len(order_to_share), number_of_stations_in_group),
                 number_of_stations_in_group)

\* The number_of_bins each station of the group asks _get_bins_from_order for
\* when number_of_bins fresh bins are split, in station order.
RECURSIVE fresh_requests(_, _, _)
fresh_requests(remaining_bins, number_of_bins_per_station, k) ==
    IF k = 0 THEN <<>>
    ELSE <<Min(remaining_bins, number_of_bins_per_station)>>
         \o fresh_requests(Max(0, remaining_bins - number_of_bins_per_station),
                           number_of_bins_per_station, k - 1)

fresh_quantities(number_of_bins, number_of_stations_in_group) ==
    fresh_requests(number_of_bins,
                   Ceil(number_of_bins, number_of_stations_in_group),
                   number_of_stations_in_group)

\* _get_number_of_bins_per_order; Unset stands for the exception it raises.
get_number_of_bins_per_order(parameters, station_type) ==
    IF station_type = "I" THEN parameters.inbound_bins_per_order
    ELSE IF station_type = "O" THEN parameters.outbound_bins_per_order
    ELSE Unset

\* ------------------------------------------------- one iteration of the loop

elapsed(r) == now - run[r].simulation_start_time

\* The type of the operation taken for Normal whatever the timeline says.
current_operation_type_normal(r) == N

current_operation_type(r) == run[r].operations[run[r].current_operation_index].type

current_operation_duration(r) == run[r].operations[run[r].current_operation_index].duration

\* The beginning of operation index, as a wall clock time.
operation_begin(r, index) ==
    run[r].simulation_start_time
        + get_duration_up_to_current_operation(run[r].operations, index - 1) * TicksPerSecond

\* The end of operation index, as a wall clock time.
operation_end(r, index) ==
    run[r].simulation_start_time
        + get_duration_up_to_current_operation(run[r].operations, index) * TicksPerSecond

\* The condition without is_all_orders_completed.
advance_order_due_with_orders_open(r, index) ==
    /\ run[r].operations[index].type = AO
    /\ run[r].loop_start_time >= run[r].next_check_time

\* The condition of the "Advance order" branch, for the operation found current.
advance_order_due(r, index) ==
    /\ run[r].operations[index].type = AO
    /\ run[r].is_all_orders_completed
    /\ run[r].loop_start_time >= run[r].next_check_time

\* The condition of the "Normal operation" branch (an elif of the former).
normal_operation_due(r, index) ==
    /\ ~advance_order_due(r, index)
    /\ run[r].operations[index].type = N \/ ~run[r].is_all_orders_completed
    /\ run[r].loop_start_time >= run[r].next_check_time

\* The product rounded down instead of up.
number_of_orders_rounded_down(r, index, orders_per_hour) ==
    (orders_per_hour * Max(operation_end(r, index) - now, TicksPerSecond))
        \div (3600 * TicksPerSecond)

\* math.ceil(orders_per_hour * (remaining_duration / 3600)), the remaining
\* duration being max(end of the operation - now, 1) seconds.
number_of_orders_for_AO(r, index, orders_per_hour) ==
    Ceil(orders_per_hour * Max(operation_end(r, index) - now, TicksPerSecond),
         3600 * TicksPerSecond)

\* time.sleep(0.5) at the end of the iteration
sleep(r, locals) == [locals EXCEPT !.wake = now + 1]

\* The Advance-order branch up to the creation of its orders.
advance_order_begin(r) ==
    /\ pc[r] = "branch"
    /\ LET index == get_current_operation(run[r].operations, elapsed(r))[2]
       IN  /\ advance_order_due(r, index)
           /\ run' = [run EXCEPT
                  ![r].current_operation_index = index,
                  ![r].inbound_left = number_of_orders_for_AO(
                      r, index, body[r].parameters.inbound_orders_per_hour),
                  ![r].outbound_left = number_of_orders_for_AO(
                      r, index, body[r].parameters.outbound_orders_per_hour),
                  ![r].new_inbound = <<>>,
                  ![r].new_outbound = <<>>,
                  ![r].advance_order_ran = @ \cup {index}]
    /\ pc' = [pc EXCEPT ![r] = "ao_create"]
    /\ UNCHANGED <<now, job_creation_status, body, station, database, sent,
                   tc_stop_calls, error, stop_pending, probe>>

\* _create_advance_orders, one order at a time, the inbound orders first: a
\* random name, and the bins of _get_bins_from_order, which may raise.
create_advance_order(r) ==
    /\ pc[r] = "ao_create"
    /\ run[r].inbound_left > 0 \/ run[r].outbound_left > 0
    /\ LET inbound == run[r].inbound_left > 0
           number_of_bins_per_order ==
               IF inbound THEN body[r].parameters.inbound_bins_per_order
               ELSE body[r].parameters.outbound_bins_per_order
       IN  \/ /\ \E name \in Names : \E bins \in get_bins_from_order(number_of_bins_per_order) :
                     run' = [run EXCEPT ![r] =
                         IF inbound
                         THEN [@ EXCEPT !.new_inbound = dict_set(@, name, bins, 0),
                                        !.inbound_left = @ - 1]
                         ELSE [@ EXCEPT !.new_outbound = dict_set(@, name, bins, 0),
                                        !.outbound_left = @ - 1]]
              /\ UNCHANGED <<pc, error>>
           \/ /\ get_bins_from_order_can_raise(number_of_bins_per_order)
              /\ Raise(r, "InventoryExhausted")
              /\ UNCHANGED run
    /\ UNCHANGED <<now, job_creation_status, body, station, database, sent,
                   tc_stop_calls, stop_pending, probe>>

\* The rest of the Advance-order branch: the new orders are submitted to SM
\* (a failed request raises), merged into the order maps, and next_check_time
\* moves to the end of the operation.
submit_advance_orders(r) ==
    /\ pc[r] = "ao_create"
    /\ run[r].inbound_left = 0 /\ run[r].outbound_left = 0
    /\ LET new_orders == dict_update(run[r].new_inbound, run[r].new_outbound, 0)
           stamp == run[r].stamp
       IN  \/ /\ run' = [run EXCEPT ![r] = sleep(r,
                     [@ EXCEPT
                         !.inbound_advance_orders =
                             dict_update(@, run[r].new_inbound, stamp + 1),
                         !.outbound_advance_orders =
                             dict_update(@, run[r].new_outbound,
                                         stamp + 1 + Len(run[r].new_inbound)),
                         !.stamp = stamp + Len(run[r].new_inbound)
                                         + Len(run[r].new_outbound),
                         !.new_inbound = <<>>,
                         !.new_outbound = <<>>,
                         !.next_check_time =
                             operation_end(r, run[r].current_operation_index)])]
              /\ pc' = [pc EXCEPT ![r] = "sleep"]
              /\ UNCHANGED error
           \/ /\ Len(new_orders) > 0
              /\ Raise(r, "RemoteCallFailed")
              /\ UNCHANGED run
    /\ UNCHANGED <<now, job_creation_status, body, station, database, sent,
                   tc_stop_calls, stop_pending, probe>>

\* Neither branch is taken: the iteration only sleeps.
no_operation(r) ==
    /\ pc[r] = "branch"
    /\ LET index == get_current_operation(run[r].operations, elapsed(r))[2]
       IN  /\ ~advance_order_due(r, index)
           /\ ~normal_operation_due(r, index)
           /\ run' = [run EXCEPT ![r] =
                  sleep(r, [@ EXCEPT !.current_operation_index = index])]
    /\ pc' = [pc EXCEPT ![r] = "sleep"]
    /\ UNCHANGED <<now, job_creation_status, body, station, database, sent,
                   tc_stop_calls, error, stop_pending, probe>>

\* The Normal-operation branch up to its loop over the station groups.
normal_operation_begin(r) ==
    /\ pc[r] = "branch"
    /\ LET index == get_current_operation(run[r].operations, elapsed(r))[2]
           fresh == /\ run[r].normal_operation_loop_index = 0
                    /\ run[r].operations[index].type = N
       IN  /\ normal_operation_due(r, index)
           /\ run' = [run EXCEPT
                  ![r].current_operation_index = index,
                  ![r].normal_operation_start_time =
                      IF fresh THEN run[r].loop_start_time ELSE @,
                  ![r].is_normal_operation_ending = IF fresh THEN FALSE ELSE @,
                  ![r].g = 1]
    /\ pc' = [pc EXCEPT ![r] = IF body[r].station_groups = <<>> THEN "tail" ELSE "group"]
    /\ UNCHANGED <<now, job_creation_status, body, station, database, sent,
                   tc_stop_calls, error, stop_pending, probe>>

\* The stations of the group being processed.
stations_of_group(r) == group_stations(body[r], run[r].g)

\* all(len(station.bins) == 0 for station in station_group.stations)
all_stations_empty(stations, members) == \A i \in Range(members) : stations[i].bins = <<>>

\* The place of station i in the group.
place(members, i) == CHOOSE j \in DOMAIN members : members[j] = i

\* Which order map serves a group of this type.
direction(type) == IF type = "I" THEN "inbound" ELSE "outbound"

advance_orders(r, type) ==
    IF type = "I" THEN run[r].inbound_advance_orders ELSE run[r].outbound_advance_orders

\* Control moves to the next station group, or past the loop over the groups.
next_group(r, locals) ==
    IF locals.g < Len(body[r].station_groups)
    THEN <<"group", [locals EXCEPT !.g = @ + 1]>>
    ELSE <<"tail", locals>>

\* After the refill of a group: "continue" when its stations are all empty,
\* the status checks from its first station on otherwise.
after_refill(r, locals, stations) ==
    IF all_stations_empty(stations, stations_of_group(r))
    THEN next_group(r, locals)
    ELSE <<"poll", [locals EXCEPT !.k = 1]>>

\* An empty group in a Normal operation takes the oldest advance order of its
\* direction: its stations share the bins, and the order leaves the map.
refill_from_advance_order(r) ==
    /\ pc[r] = "group"
    /\ LET members == stations_of_group(r)
           type == group_type(body[r], run[r].g)
           orders == advance_orders(r, type)
       IN  /\ all_stations_empty(station[r], members)
           /\ current_operation_type(r) = N
           /\ Len(orders) > 0
           /\ LET order == oldest_order(orders)
                  slices == share_order(order.bins, Len(members))
                  left == dict_pop(orders, order.name)
              IN  /\ station' = [station EXCEPT ![r] =
                         [i \in DOMAIN @ |->
                             IF i \in Range(members)
                             THEN [@[i] EXCEPT
                                      !.bins = slices[place(members, i)],
                                      !.advance_order_name = order.name]
                             ELSE @[i]]]
                  /\ run' = [run EXCEPT ![r] =
                         [@ EXCEPT
                             !.inbound_advance_orders = IF type = "I" THEN left ELSE @,
                             !.outbound_advance_orders = IF type = "I" THEN @ ELSE left,
                             !.last_consumed[direction(type)] = order.stamp,
                             !.k = 1]]
    /\ pc' = [pc EXCEPT ![r] = "call"]
    /\ UNCHANGED <<now, job_creation_status, body, database, sent,
                   tc_stop_calls, error, stop_pending, probe>>

\* An empty group in a Normal operation with no advance order of its direction
\* left: each station in turn asks _get_bins_from_order for its share of the
\* bins per order. The stations before a raising call keep what they got.
refill_fresh(r) ==
    /\ pc[r] = "group"
    /\ LET members == stations_of_group(r)
           type == group_type(body[r], run[r].g)
           number_of_bins == get_number_of_bins_per_order(body[r].parameters, type)
           quantities == fresh_quantities(number_of_bins, Len(members))
       IN  /\ all_stations_empty(station[r], members)
           /\ current_operation_type(r) = N
           /\ Len(advance_orders(r, type)) = 0
           /\ \/ /\ number_of_bins = Unset
                 /\ Raise(r, "InvalidStationType")
                 /\ UNCHANGED <<station, run>>
              \/ /\ number_of_bins # Unset
                 /\ \E failing \in 1..(Len(members) + 1) :
                    \E bins \in [DOMAIN members -> unique_sequences(Inventory, number_of_bins)] :
                       /\ \A j \in DOMAIN members :
                              IF j < failing
                              THEN bins[j] \in get_bins_from_order(quantities[j])
                              ELSE bins[j] = <<>>
                       /\ failing <= Len(members) =>
                              get_bins_from_order_can_raise(quantities[failing])
                       /\ station' = [station EXCEPT ![r] =
                              [i \in DOMAIN @ |->
                                  IF i \in Range(members) /\ place(members, i) < failing
                                  THEN [@[i] EXCEPT
                                           !.bins = bins[place(members, i)],
                                           !.advance_order_name = Unset]
                                  ELSE @[i]]]
                       /\ IF failing <= Len(members)
                          THEN Raise(r, "InventoryExhausted") /\ UNCHANGED run
                          ELSE /\ run' = [run EXCEPT ![r].k = 1]
                               /\ pc' = [pc EXCEPT ![r] = "call"]
                               /\ UNCHANGED error
    /\ UNCHANGED <<now, job_creation_status, body, database, sent,
                   tc_stop_calls, stop_pending, probe>>

\* The request _call_bins sends for a station.
call_request(r, i) ==
    [op |-> "call", station |-> body[r].stations[i].code, storages |-> station[r][i].bins]

\* The request _store_bin sends for a station and a bin.
store_request(r, i, bin_id) ==
    [op |-> "store", station |-> body[r].stations[i].code, storages |-> <<bin_id>>]

\* After a refill every station of the group is sent its "call bins" request,
\* in station order; the first request to fail raises.
call_bins(r) ==
    /\ pc[r] = "call"
    /\ LET members == stations_of_group(r)
       IN  \E failing \in 1..(Len(members) + 1) :
              /\ sent' = [sent EXCEPT ![r] =
                     @ \o [j \in 1..Min(failing, Len(members)) |-> call_request(r, members[j])]]
              /\ IF failing <= Len(members)
                 THEN Raise(r, "RemoteCallFailed") /\ UNCHANGED run
                 ELSE LET then == after_refill(r, run[r], station[r])
                      IN  /\ pc' = [pc EXCEPT ![r] = then[1]]
                          /\ run' = [run EXCEPT ![r] = then[2]]
                          /\ UNCHANGED error
    /\ UNCHANGED <<now, job_creation_status, body, station, database,
                   tc_stop_calls, stop_pending, probe>>

\* A group that is not refilled (it holds bins, or the operation is not
\* Normal): "continue" when it is empty, its status checks otherwise.
skip_refill(r) ==
    /\ pc[r] = "group"
    /\ ~(/\ all_stations_empty(station[r], stations_of_group(r))
          /\ current_operation_type(r) = N)
    /\ LET then == after_refill(r, run[r], station[r])
       IN  /\ pc' = [pc EXCEPT ![r] = then[1]]
           /\ run' = [run EXCEPT ![r] = then[2]]
    /\ UNCHANGED <<now, job_creation_status, body, station, database, sent,
                   tc_stop_calls, error, stop_pending, probe>>

\* What GET /v3/storages?stations= can answer: at most two records, the bin
\* at the station and the bin at the gateway.
StatusRecord(code, lastMovement) == [code |-> code, lastMovement |-> lastMovement]

StatusResponses ==
    {<<>>}
    \cup {<<StatusRecord(b, "AT_STATION_WORK")>> : b \in Inventory}
    \cup {<<StatusRecord(b, "AT_GATEWAY")>> : b \in Inventory}
    \cup {<<StatusRecord(c, "AT_GATEWAY"), StatusRecord(b, "AT_STATION_WORK")>> :
              b \in Inventory, c \in Inventory}

\* The code of the first record with lastMovement AT_STATION_WORK, or Unset.
status_with_bin_at_station(station_status) ==
    LET at == {j \in DOMAIN station_status :
                  station_status[j].lastMovement = "AT_STATION_WORK"}
    IN  IF at = {} THEN Unset
        ELSE station_status[CHOOSE j \in at : \A q \in at : j <= q].code

\* list.remove of the first bin with this code
remove_bin(bins, bin_id) ==
    LET first == CHOOSE j \in DOMAIN bins :
                     bins[j] = bin_id /\ \A q \in 1..(j - 1) : bins[q] # bin_id
    IN  SubSeq(bins, 1, first - 1) \o SubSeq(bins, first + 1, Len(bins))

\* The outbound handling time whatever the station.
delay_outbound(r, i) == TicksPerSecond * body[r].parameters.outbound_time

\* The handling time of a station, in clock ticks.
delay(r, i) ==
    TicksPerSecond * (IF body[r].stations[i].type = "I"
                      THEN body[r].parameters.inbound_time
                      ELSE body[r].parameters.outbound_time)

\* Control moves to the next station of the group, or to the next group.
next_station(r, locals) ==
    IF locals.k < Len(stations_of_group(r))
    THEN <<"poll", [locals EXCEPT !.k = @ + 1]>>
    ELSE next_group(r, locals)

\* The search for the stored bin falling back on the station's first bin.
bin_to_remove_or_first(bins, bin_id) ==
    IF bin_id \in Range(bins) THEN bin_id
    ELSE IF bins # <<>> THEN bins[1] ELSE Unset

\* next((bin for bin in station.bins if bin["code"] == bin_id), None)
bin_to_remove(bins, bin_id) == IF bin_id \in Range(bins) THEN bin_id ELSE Unset

\* The removal taking the station's first bin whichever bin was stored.
bins_after_store_head(bins, found) == Tail(bins)

\* station.bins once station.bins.remove(bin_to_remove) is done.
bins_after_store(bins, found) == remove_bin(bins, found)

\* The status check of one station of a group that holds bins: the status is
\* polled; a bin at the station whose time has come is stored, the next job
\* time moves on, and the bin leaves the station's list, or, not found there,
\* raises. Each of the two requests raises when it fails.
check_station_status(r) ==
    /\ pc[r] = "poll"
    /\ LET i == stations_of_group(r)[run[r].k]
           then == next_station(r, run[r])
       IN  \/ /\ Raise(r, "RemoteCallFailed")
              /\ UNCHANGED <<run, station, sent>>
           \/ \E station_status \in StatusResponses :
                 LET bin_id == status_with_bin_at_station(station_status)
                 IN  IF bin_id # Unset /\ now >= station[r][i].next_job_time
                     THEN /\ sent' = [sent EXCEPT ![r] = Append(@, store_request(r, i, bin_id))]
                          /\ \/ /\ Raise(r, "RemoteCallFailed")
                                /\ UNCHANGED <<run, station>>
                             \/ /\ bin_to_remove(station[r][i].bins, bin_id) = Unset
                                /\ station' = [station EXCEPT
                                       ![r][i].next_job_time = now + delay(r, i)]
                                /\ Raise(r, "ConsistencyViolation")
                                /\ UNCHANGED run
                             \/ /\ bin_to_remove(station[r][i].bins, bin_id) # Unset
                                /\ station' = [station EXCEPT
                                       ![r][i].next_job_time = now + delay(r, i),
                                       ![r][i].bins = bins_after_store(
                                           @, bin_to_remove(@, bin_id))]
                                /\ pc' = [pc EXCEPT ![r] = then[1]]
                                /\ run' = [run EXCEPT ![r] = then[2]]
                                /\ UNCHANGED error
                     ELSE /\ pc' = [pc EXCEPT ![r] = then[1]]
                          /\ run' = [run EXCEPT ![r] = then[2]]
                          /\ UNCHANGED <<station, sent, error>>
    /\ UNCHANGED <<now, job_creation_status, body, database,
                   tc_stop_calls, stop_pending, probe>>

\* The end of the Normal-operation branch: the next check time, the loop
\* index, is_all_orders_completed, and the end of the Normal operation. Reading
\* a normal_operation_start_time that was never assigned raises.
finish_tick(r) ==
    /\ pc[r] = "tail"
    /\ IF run[r].normal_operation_start_time = Unset
       THEN Raise(r, "UnboundLocalError") /\ UNCHANGED run
       ELSE LET ending ==
                    /\ now >= run[r].normal_operation_start_time
                                  + current_operation_duration(r) * TicksPerSecond
                    /\ ~run[r].is_normal_operation_ending
            IN  /\ run' = [run EXCEPT ![r] = sleep(r,
                       [@ EXCEPT
                           !.next_check_time =
                               run[r].loop_start_time + check_time_interval * TicksPerSecond,
                           !.normal_operation_loop_index =
                               IF ending THEN 0
                               ELSE IF run[r].is_normal_operation_ending THEN @ ELSE @ + 1,
                           !.is_all_orders_completed =
                               /\ \A i \in DOMAIN station[r] : station[r][i].bins = <<>>
                               /\ current_operation_type(r) # N,
                           !.is_normal_operation_ending = @ \/ ending])]
                /\ pc' = [pc EXCEPT ![r] = "sleep"]
                /\ UNCHANGED error
    /\ UNCHANGED <<now, job_creation_status, body, station, database, sent,
                   tc_stop_calls, stop_pending, probe>>

\* The sleep is over: control is back at the condition of the loop.
wake_up(r) ==
    /\ pc[r] = "sleep"
    /\ now >= run[r].wake
    /\ pc' = [pc EXCEPT ![r] = "cond"]
    /\ UNCHANGED <<now, job_creation_status, body, run, station, database, sent,
                   tc_stop_calls, error, stop_pending, probe>>

\* One step of a run's background task outside the Advance-order branch.
normal_step(r) ==
    \/ create_jobs_and_update_status(r)
    \/ enter_loop(r)
    \/ exit_loop(r)
    \/ no_operation(r)
    \/ normal_operation_begin(r)
    \/ refill_from_advance_order(r)
    \/ refill_fresh(r)
    \/ call_bins(r)
    \/ skip_refill(r)
    \/ check_station_status(r)
    \/ finish_tick(r)
    \/ wake_up(r)
    \/ persist_end(r)
    \/ close_connection(r)
    \/ tc_stop(r)

\* One step of a run's background task.
scheduler_step(r) ==
    \/ advance_order_begin(r)
    \/ create_advance_order(r)
    \/ submit_advance_orders(r)
    \/ normal_step(r)

\* ------------------------------------------------------------ specifications

\* Two inbound stations in one group, an Advance-order second in which two
\* inbound orders of one bin are created, then two Normal seconds.
RequestAdvance ==
    JobsCreationRequest(
        Parameters(1, 0, 1, 1, 7200, 0),
        <<"A", "O", "1", ";", "N", "2">>,
        <<Station(1, "I"), Station(2, "I")>>,
        <<StationGroup(0, {1, 2})>>)

\* An inbound and an outbound group of one station each, one Normal second
\* and an Advance-order second with nothing to create.
RequestGroups ==
    JobsCreationRequest(
        Parameters(0, 1, 2, 1, 0, 0),
        <<"N", "1", ";", "A", "O", "1">>,
        <<Station(1, "I"), Station(2, "O")>>,
        <<StationGroup(0, {1}), StationGroup(1, {2})>>)

SchedRequests == {RequestAdvance, RequestGroups}

\* One run of the scheduler on each request of SchedRequests.
Init ==
    /\ InitProgram
    /\ probe = NoProbe

Next ==
    \/ \E request \in SchedRequests : create_jobs(1, request)
    \/ stop_jobs
    \/ \E r \in Runs : scheduler_step(r)
    \/ Elapse(MaxTime)

Spec == Init /\ [][Next]_vars

\* No station at all, one Normal second.
RequestEmpty ==
    JobsCreationRequest(
        Parameters(0, 0, 0, 0, 0, 0),
        <<"N", "1">>,
        <<>>,
        <<>>)

RunRequests == {RequestEmpty}

\* One step of the background task of a run on a request of RunRequests.
run_step(r) ==
    \/ create_jobs_and_update_status(r)
    \/ enter_loop(r)
    \/ exit_loop(r)
    \/ no_operation(r)
    \/ normal_operation_begin(r)
    \/ finish_tick(r)
    \/ wake_up(r)
    \/ persist_end(r)
    \/ close_connection(r)
    \/ tc_stop(r)

\* The control surface with its operator: runs are started and stopped at any
\* moment, and their background tasks run side by side.
NextRun ==
    \/ \E r \in Runs : \E request \in RunRequests : create_jobs(r, request)
    \/ stop_jobs
    \/ \E r \in Runs : run_step(r)
    \/ Elapse(MaxRunTime)

SpecRun == Init /\ [][NextRun]_vars

\* ------------------------------------------- the current-operation lookup

\* "N100;AO50;N200"
Example ==
    <<"N", "1", "0", "0", ";", "A", "O", "5", "0", ";", "N", "2", "0", "0">>

\* The duration strings looked up: the example, a timeline with an operation
\* of no duration in the middle, a single operation, and a timeline of no
\* duration at all.
DurationStrings ==
    {Example,
     <<"N", "2", ";", "A", "O", "0", ";", "N", "1">>,
     <<"A", "O", "3">>,
     <<"N", "0">>}

lookup_probe(duration_string, elapsed_ticks, result) ==
    [fn |-> "lookup",
     duration_string |-> duration_string,
     operations |-> parse_operations(duration_string),
     elapsed |-> elapsed_ticks,
     result |-> result]

InitLookup ==
    /\ InitProgram
    /\ \E duration_string \in DurationStrings :
           probe = lookup_probe(duration_string, 0, <<>>)

\* current_operation, current_operation_index = self._get_current_operation(...)
lookup_operation ==
    /\ probe.fn = "lookup"
    /\ probe.result = <<>>
    /\ probe' = [probe EXCEPT
                    !.result = get_current_operation(probe.operations, probe.elapsed)]
    /\ UNCHANGED program_vars

\* Half a second later the lookup is made again.
lookup_later ==
    /\ probe.fn = "lookup"
    /\ probe.result # <<>>
    /\ probe.elapsed < MaxElapsed
    /\ probe' = [probe EXCEPT !.elapsed = @ + 1, !.result = <<>>]
    /\ UNCHANGED program_vars

NextLookup ==
    \/ lookup_operation
    \/ lookup_later

SpecLookup == InitLookup /\ [][NextLookup]_vars

\* ---------------------------------------- the split of bins over a group

\* An advance order of number_of_bins bins.
order_of_bins(number_of_bins) == [b \in 1..number_of_bins |-> b]

\* requested and received: what each station served so far asked of
\* _get_bins_from_order (fresh bins only) and what it got.
split_probe(path, number_of_bins, k) ==
    [fn |-> "split",
     path |-> path,
     number_of_bins |-> number_of_bins,
     k |-> k,
     requested |-> <<>>,
     received |-> <<>>,
     failed |-> FALSE]

InitSplit ==
    /\ InitProgram
    /\ \E path \in {"advance", "fresh"} :
       \E number_of_bins \in 0..MaxSplitBins :
       \E k \in 1..MaxSplitStations :
           probe = split_probe(path, number_of_bins, k)

\* The stations of an empty group of k stations share the oldest advance
\* order, of number_of_bins bins.
split_advance_order ==
    /\ probe.fn = "split"
    /\ probe.path = "advance"
    /\ probe.received = <<>>
    /\ probe' = [probe EXCEPT
                    !.received = share_order(order_of_bins(probe.number_of_bins), probe.k)]
    /\ UNCHANGED program_vars

\* The next station of an empty group of k stations asks for its share of
\* number_of_bins fresh bins: it gets bins, or _get_bins_from_order raises.
split_fresh_bins ==
    /\ probe.fn = "split"
    /\ probe.path = "fresh"
    /\ ~probe.failed
    /\ Len(probe.received) < probe.k
    /\ LET quantity == fresh_quantities(probe.number_of_bins, probe.k)[Len(probe.received) + 1]
       IN  \/ \E bins \in get_bins_from_order(quantity) :
                 probe' = [probe EXCEPT
                              !.requested = Append(@, quantity),
                              !.received = Append(@, bins)]
           \/ /\ get_bins_from_order_can_raise(quantity)
              /\ probe' = [probe EXCEPT
                              !.requested = Append(@, quantity),
                              !.failed = TRUE]
    /\ UNCHANGED program_vars

NextSplit ==
    \/ split_advance_order
    \/ split_fresh_bins

SpecSplit == InitSplit /\ [][NextSplit]_vars

\* ------------------------------------------- _get_bins_from_order in detail

Layers == 1..NumLayers

\* The pareto_probabilities a call samples the layers with: every layer
\* alike, or never a layer after the first.
PossibleWeights == {[layer \in Layers |-> 1], [layer \in Layers |-> IF layer = 1 THEN 1 ELSE 0]}

\* What GET /v3/storages/layer answers per layer during one call: nothing
\* anywhere; a bin in the second layer only; the same record twice in the
\* first layer; a bin that both layers list; the same bin in each layer.
Inventories ==
    {[layer \in Layers |-> <<>>],
     [layer \in Layers |-> IF layer = 2 THEN <<1>> ELSE <<>>],
     [layer \in Layers |-> IF layer = 1 THEN <<1, 1>> ELSE <<>>],
     [layer \in Layers |-> IF layer = 1 THEN <<1, 2>> ELSE IF layer = 2 THEN <<2>> ELSE <<>>],
     [layer \in Layers |-> IF layer <= 2 THEN <<1>> ELSE <<>>]}

\* number_of_bins_per_layer: how numpy.random.choice(len(weights),
\* size=number_of_bins, p=weights) can spread the draws over the layers.
tallies(number_of_bins, weights) ==
    {tally \in [Layers -> 0..number_of_bins] :
        /\ SumSeq([layer \in Layers |-> tally[layer]]) = number_of_bins
        /\ \A layer \in Layers : weights[layer] = 0 => tally[layer] = 0}

\* _get_bins_from_layers: the bins of the layer, [] when the request fails.
get_bins_from_layers(inventory, layer, request_ok) ==
    IF request_ok THEN inventory[layer] ELSE <<>>

\* numpy.random.choice(len(bins_in_this_layer), size=quantity_to_sample,
\* replace=False), and the bins at the indices drawn.
sampled_bins(bins_in_this_layer, quantity_to_sample) ==
    {[j \in DOMAIN sampled_indices |-> bins_in_this_layer[sampled_indices[j]]] :
        sampled_indices \in
            {s \in unique_sequences(DOMAIN bins_in_this_layer, quantity_to_sample) :
                Len(s) = quantity_to_sample}}

\* One pass over the layers from layer on: the bins it can collect, with the
\* layer requests it sends and how many of them fail.
RECURSIVE bins_of_attempt(_, _, _)
bins_of_attempt(number_of_bins_per_layer, inventory, layer) ==
    IF layer > NumLayers THEN {[bins |-> <<>>, fetches |-> 0, failed |-> 0]}
    ELSE LET rest == bins_of_attempt(number_of_bins_per_layer, inventory, layer + 1)
             quantity == number_of_bins_per_layer[layer]
         IN  IF quantity = 0 THEN rest
             ELSE UNION {
                      LET bins_in_this_layer == get_bins_from_layers(inventory, layer, request_ok)
                          quantity_to_sample == Min(quantity, Len(bins_in_this_layer))
                      IN  {[bins |-> sample \o later.bins,
                            fetches |-> later.fetches + 1,
                            failed |-> later.failed + (IF request_ok THEN 0 ELSE 1)] :
                               sample \in sampled_bins(bins_in_this_layer, quantity_to_sample),
                               later \in rest} :
                      request_ok \in BOOLEAN}

\* The bins kept as they come, every code at its first occurrence only.
all_bins_kept(bins) == bins

\* unique_bins: the first occurrence of every code, in order.
RECURSIVE unique_bins(_)
unique_bins(bins) ==
    IF bins = <<>> THEN <<>>
    ELSE LET before == unique_bins(SubSeq(bins, 1, Len(bins) - 1))
             last == bins[Len(bins)]
         IN  IF last \in Range(before) THEN before ELSE Append(before, last)

\* The call that samples the layers however few bins are asked for.
bins_call_sampling(r, site, number_of_bins, weights, inventory) ==
    [fn |-> "bins",
     caller |-> r,
     site |-> site,
     number_of_bins |-> number_of_bins,
     weights |-> weights,
     inventory |-> inventory,
     retry_count |-> 0,
     attempts |-> 0,
     fetches |-> 0,
     failed |-> 0,
     bins |-> <<>>,
     result |-> <<>>,
     status |-> "sampling"]

\* The state of one call of _get_bins_from_order made by run r, at its
\* start: a call for less than one bin returns [] at once. attempts counts the
\* iterations of the retry loop; bins, fetches and failed are the bins of the
\* last iteration, the layer requests it sent and how many of them failed.
bins_call(r, site, number_of_bins, weights, inventory) ==
    [fn |-> "bins",
     caller |-> r,
     site |-> site,
     number_of_bins |-> number_of_bins,
     weights |-> weights,
     inventory |-> inventory,
     retry_count |-> 0,
     attempts |-> 0,
     fetches |-> 0,
     failed |-> 0,
     bins |-> <<>>,
     result |-> <<>>,
     status |-> IF number_of_bins < 1 THEN "returned" ELSE "sampling"]

\* One iteration of the retry loop: the layers are sampled and their bins
\* fetched; bins found end the loop and are returned without repeated codes,
\* no bin found counts a retry, and the last retry raises.
sample_layers ==
    /\ probe.fn = "bins"
    /\ probe.status = "sampling"
    /\ probe.retry_count < max_retries
    /\ \E number_of_bins_per_layer \in tallies(probe.number_of_bins, probe.weights) :
       \E attempt \in bins_of_attempt(number_of_bins_per_layer, probe.inventory, 1) :
           probe' = [probe EXCEPT
               !.attempts = @ + 1,
               !.fetches = attempt.fetches,
               !.failed = attempt.failed,
               !.bins = attempt.bins,
               !.retry_count = IF Len(attempt.bins) > 0 THEN @ ELSE @ + 1,
               !.result = IF Len(attempt.bins) > 0 THEN unique_bins(attempt.bins) ELSE @,
               !.status = IF Len(attempt.bins) > 0 THEN "returned"
                          ELSE IF probe.retry_count + 1 < max_retries THEN "sampling"
                          ELSE "raised"]
    /\ UNCHANGED program_vars

\* _create_advance_orders calls _get_bins_from_order for its next order.
create_advance_order_call(r) ==
    /\ pc[r] = "ao_create"
    /\ run[r].inbound_left > 0 \/ run[r].outbound_left > 0
    /\ \E weights \in PossibleWeights : \E inventory \in Inventories :
           probe' = bins_call(r, "order",
                              IF run[r].inbound_left > 0
                              THEN body[r].parameters.inbound_bins_per_order
                              ELSE body[r].parameters.outbound_bins_per_order,
                              weights, inventory)
    /\ pc' = [pc EXCEPT ![r] = "fetch"]
    /\ UNCHANGED <<now, job_creation_status, body, run, station, database, sent,
                   tc_stop_calls, error, stop_pending>>

\* The call returns: the order is entered under a random name.
create_advance_order_return(r) ==
    /\ pc[r] = "fetch"
    /\ probe.fn = "bins" /\ probe.caller = r /\ probe.site = "order"
    /\ probe.status = "returned"
    /\ \E name \in Names :
           run' = [run EXCEPT ![r] =
               IF run[r].inbound_left > 0
               THEN [@ EXCEPT !.new_inbound = dict_set(@, name, probe.result, 0),
                              !.inbound_left = @ - 1]
               ELSE [@ EXCEPT !.new_outbound = dict_set(@, name, probe.result, 0),
                              !.outbound_left = @ - 1]]
    /\ probe' = NoProbe
    /\ pc' = [pc EXCEPT ![r] = "ao_create"]
    /\ UNCHANGED <<now, job_creation_status, body, station, database, sent,
                   tc_stop_calls, error, stop_pending>>

\* The exception caught by the caller, the iteration going on to its end.
bins_raise_caught(r) ==
    /\ pc[r] = "fetch"
    /\ probe.fn = "bins" /\ probe.caller = r
    /\ probe.status = "raised"
    /\ pc' = [pc EXCEPT ![r] = "tail"]
    /\ UNCHANGED <<now, job_creation_status, body, run, station, database, sent,
                   tc_stop_calls, error, stop_pending, probe>>

\* The call raises: neither caller catches, the exception leaves create_jobs.
bins_raise(r) ==
    /\ pc[r] = "fetch"
    /\ probe.fn = "bins" /\ probe.caller = r
    /\ probe.status = "raised"
    /\ Raise(r, "InventoryExhausted")
    /\ UNCHANGED <<now, job_creation_status, body, run, station, database, sent,
                   tc_stop_calls, stop_pending, probe>>

\* An empty group in a Normal operation with no advance order of its
\* direction: its first station calls _get_bins_from_order for its share.
refill_fresh_call(r) ==
    /\ pc[r] = "group"
    /\ LET members == stations_of_group(r)
           type == group_type(body[r], run[r].g)
           number_of_bins == get_number_of_bins_per_order(body[r].parameters, type)
       IN  /\ all_stations_empty(station[r], members)
           /\ current_operation_type(r) = N
           /\ Len(advance_orders(r, type)) = 0
           /\ number_of_bins # Unset
           /\ \E weights \in PossibleWeights : \E inventory \in Inventories :
                  probe' = bins_call(r, "refill",
                                     fresh_quantities(number_of_bins, Len(members))[1],
                                     weights, inventory)
    /\ run' = [run EXCEPT ![r].k = 1]
    /\ pc' = [pc EXCEPT ![r] = "fetch"]
    /\ UNCHANGED <<now, job_creation_status, body, station, database, sent,
                   tc_stop_calls, error, stop_pending>>

\* The call returns: the station takes the bins, and the next station of the
\* group calls for its share; after the last one the bins are called.
refill_fresh_return(r) ==
    /\ pc[r] = "fetch"
    /\ probe.fn = "bins" /\ probe.caller = r /\ probe.site = "refill"
    /\ probe.status = "returned"
    /\ LET members == stations_of_group(r)
           type == group_type(body[r], run[r].g)
           number_of_bins == get_number_of_bins_per_order(body[r].parameters, type)
       IN  /\ station' = [station EXCEPT
                  ![r][members[run[r].k]].bins = probe.result,
                  ![r][members[run[r].k]].advance_order_name = Unset]
           /\ IF run[r].k < Len(members)
              THEN /\ \E inventory \in Inventories :
                          probe' = bins_call(
                              r, "refill",
                              fresh_quantities(number_of_bins, Len(members))[run[r].k + 1],
                              probe.weights, inventory)
                   /\ run' = [run EXCEPT ![r].k = @ + 1]
                   /\ UNCHANGED pc
              ELSE /\ probe' = NoProbe
                   /\ run' = [run EXCEPT ![r].k = 1]
                   /\ pc' = [pc EXCEPT ![r] = "call"]
    /\ UNCHANGED <<now, job_creation_status, body, database, sent,
                   tc_stop_calls, error, stop_pending>>

\* One inbound station, one Normal second, orders of two fresh bins.
RequestFresh ==
    JobsCreationRequest(
        Parameters(0, 0, 2, 0, 0, 0),
        <<"N", "1">>,
        <<Station(1, "I")>>,
        <<StationGroup(0, {1})>>)

\* One inbound station, one Advance-order second with one inbound order of
\* one bin to create.
RequestOrder ==
    JobsCreationRequest(
        Parameters(0, 0, 1, 0, 1, 0),
        <<"A", "O", "1">>,
        <<Station(1, "I")>>,
        <<StationGroup(0, {1})>>)

\* One outbound station, one Normal second, orders of no bin.
RequestNoBin ==
    JobsCreationRequest(
        Parameters(0, 0, 0, 0, 0, 0),
        <<"N", "1">>,
        <<Station(1, "O")>>,
        <<StationGroup(0, {1})>>)

\* Two inbound stations in one group, one Normal second, orders of two bins.
RequestPair ==
    JobsCreationRequest(
        Parameters(0, 0, 2, 0, 0, 0),
        <<"N", "1">>,
        <<Station(1, "I"), Station(2, "I")>>,
        <<StationGroup(0, {1, 2})>>)

SourceRequests == {RequestFresh, RequestOrder, RequestNoBin, RequestPair}

\* One step of a run whose calls of _get_bins_from_order are made in detail.
source_step(r) ==
    \/ create_jobs_and_update_status(r)
    \/ enter_loop(r)
    \/ exit_loop(r)
    \/ advance_order_begin(r)
    \/ create_advance_order_call(r)
    \/ create_advance_order_return(r)
    \/ submit_advance_orders(r)
    \/ no_operation(r)
    \/ normal_operation_begin(r)
    \/ refill_fresh_call(r)
    \/ refill_fresh_return(r)
    \/ bins_raise(r)
    \/ call_bins(r)
    \/ skip_refill(r)
    \/ check_station_status(r)
    \/ finish_tick(r)
    \/ wake_up(r)
    \/ persist_end(r)
    \/ close_connection(r)
    \/ tc_stop(r)

NextSource ==
    \/ \E request \in SourceRequests : create_jobs(1, request)
    \/ source_step(1)
    \/ sample_layers
    \/ Elapse(MaxTime)

\* One run of the scheduler with the inventory behind it.
SpecSource == Init /\ [][NextSource]_vars

\* ------------------------------------------- stations of an unknown type

\* Station.type is a free string (job_request.py): one station of type "X",
\* an Advance-order second in which one outbound order of one bin is created,
\* then a Normal second.
RequestKindOrder ==
    JobsCreationRequest(
        Parameters(0, 0, 1, 1, 0, 3600),
        <<"A", "O", "1", ";", "N", "1">>,
        <<Station(1, "X")>>,
        <<StationGroup(0, {1})>>)

\* The same station in a Normal second with no advance order at all.
RequestKindFresh ==
    JobsCreationRequest(
        Parameters(0, 0, 1, 1, 0, 0),
        <<"N", "1">>,
        <<Station(1, "X")>>,
        <<StationGroup(0, {1})>>)

KindRequests == {RequestKindOrder, RequestKindFresh}

NextKinds ==
    \/ \E request \in KindRequests : create_jobs(1, request)
    \/ scheduler_step(1)
    \/ Elapse(MaxTime)

\* One run of the scheduler on each request of KindRequests.
SpecKinds == Init /\ [][NextKinds]_vars

\* ------------------------------------------- ParetoCalculator.get_alpha

\* Floating-point numbers are modelled on a grid: a number is a count of
\* units, UnitsPerOne units make 1.0, and the representable numbers are the
\* multiples of Ulp units. A tolerance may be any number of units.
ParetoCalculator_min_layer == 1

\* self.max_layer of ParetoCalculator(min_layer=1, max_layer=3)
ParetoCalculator_max_layer == 3 + 1

\* x0 = q * (self.max_layer - self.min_layer) + self.min_layer, q a fraction
\* <<numerator, denominator>>.
get_x0(q) ==
    (q[1] * (ParetoCalculator_max_layer - ParetoCalculator_min_layer)) \div q[2]
        + ParetoCalculator_min_layer

\* a < b for fractions
less(a, b) == a[1] * b[2] < b[1] * a[2]

RECURSIVE pow2(_)
pow2(n) == IF n = 0 THEN 1 ELSE 2 * pow2(n - 1)

\* cdf(2, alpha) at a whole alpha. With min_layer 1 and self.max_layer 4,
\* C = 1 - 4^-alpha and cdf(2, alpha) = 1 - (2^-alpha - 4^-alpha) / C
\* = 1 / (1 + 2^-alpha), which grows with alpha.
cdf_at(n) ==
    IF n >= 0 THEN <<pow2(n), 1 + pow2(n)>> ELSE <<1, 1 + pow2(0 - n)>>

\* The whole numbers around alpha (alpha in units, alpha >= 0).
floor(alpha) == alpha \div UnitsPerOne

ceiling(alpha) == IF alpha % UnitsPerOne = 0 THEN floor(alpha) ELSE floor(alpha) + 1

\* cdf_value < p for cdf_value = self.cdf(x, alpha): 0.0 at x <= min_layer,
\* exactly 1 at x = self.max_layer, and for x = 2 the value lies strictly
\* between cdf_at of the whole numbers around alpha, which decides the
\* comparison for every p that is 0, 1 or cdf_at of a whole number.
cdf_less(x, alpha, p) ==
    IF x <= ParetoCalculator_min_layer THEN less(<<0, 1>>, p)
    ELSE IF x >= ParetoCalculator_max_layer THEN less(<<1, 1>>, p)
    ELSE IF alpha % UnitsPerOne = 0 THEN less(cdf_at(floor(alpha)), p)
    ELSE ~less(p, cdf_at(ceiling(alpha)))

\* (left + right) / 2 rounded to a representable number, ties to even.
midpoint(left, right) ==
    LET sum == (left + right) \div Ulp
    IN  IF sum % 2 = 0 THEN (sum \div 2) * Ulp
        ELSE IF ((sum - 1) \div 2) % 2 = 0 THEN ((sum - 1) \div 2) * Ulp
        ELSE ((sum + 1) \div 2) * Ulp

\* abs(right - left)
abs(x) == IF x < 0 THEN 0 - x ELSE x

\* The proportions p: 0, 1, and cdf(2, alpha) at alpha -2, 3 and 6.
Proportions == {<<0, 1>>, cdf_at(0 - 2), cdf_at(3), cdf_at(6), <<1, 1>>}

\* The proportions q: 0, 1/3 and 1 (x0 is 1, 2 and 4).
Causes == {<<0, 1>>, <<1, 3>>, <<1, 1>>}

\* The default tolerance, and one below the spacing of representable numbers.
Tolerances == {tolerance_default, SmallTolerance}

\* get_alpha(p, q, tolerance) up to the loop.
get_alpha(p, q, tolerance) ==
    [fn |-> "alpha", p |-> p, q |-> q, tolerance |-> tolerance,
     left |-> alpha_search_range[1], right |-> alpha_search_range[2],
     x0 |-> get_x0(q), iterations |-> 0, status |-> "loop", alpha |-> Unset]

get_alpha_call ==
    /\ probe = NoProbe
    /\ \E p \in Proportions : \E q \in Causes : \E tolerance \in Tolerances :
           probe' = get_alpha(p, q, tolerance)
    /\ UNCHANGED <<now, job_creation_status, pc, body, run, station, database,
                   sent, tc_stop_calls, error, stop_pending>>

\* One iteration of the while loop.
bisect ==
    /\ probe.fn = "alpha" /\ probe.status = "loop"
    /\ abs(probe.right - probe.left) > probe.tolerance
    /\ probe.iterations < MaxIterations
    /\ LET alpha == midpoint(probe.left, probe.right)
       IN  probe' = IF cdf_less(probe.x0, alpha, probe.p)
                    THEN [probe EXCEPT !.left = alpha, !.iterations = @ + 1]
                    ELSE [probe EXCEPT !.right = alpha, !.iterations = @ + 1]
    /\ UNCHANGED <<now, job_creation_status, pc, body, run, station, database,
                   sent, tc_stop_calls, error, stop_pending>>

\* return x0, (left + right) / 2
get_alpha_return ==
    /\ probe.fn = "alpha" /\ probe.status = "loop"
    /\ abs(probe.right - probe.left) <= probe.tolerance
    /\ probe' = [probe EXCEPT !.status = "returned",
                              !.alpha = midpoint(probe.left, probe.right)]
    /\ UNCHANGED <<now, job_creation_status, pc, body, run, station, database,
                   sent, tc_stop_calls, error, stop_pending>>

NextAlpha == get_alpha_call \/ bisect \/ get_alpha_return

\* get_alpha on each p, q and tolerance.
SpecAlpha == Init /\ [][NextAlpha]_vars

\* ------------------------------------------- timelines of several phases

\* "N1;AO2;N1": one inbound station, refilled with one fresh bin in the
\* Normal seconds, and one advance order of one bin created in the
\* Advance-order seconds.
RequestPhases ==
    JobsCreationRequest(
        Parameters(0, 0, 1, 0, 1800, 0),
        <<"N", "1", ";", "A", "O", "2", ";", "N", "1">>,
        <<Station(1, "I")>>,
        <<StationGroup(0, {1})>>)

\* "AO1": a timeline that ends with its Advance-order operation, no station.
RequestLastAdvance ==
    JobsCreationRequest(
        Parameters(0, 0, 1, 0, 3600, 0),
        <<"A", "O", "1">>,
        <<>>,
        <<>>)

\* "AO1;N2;AO1": a Normal operation between two shorter Advance-order
\* operations, no station.
RequestDrain ==
    JobsCreationRequest(
        Parameters(0, 0, 1, 0, 3600, 0),
        <<"A", "O", "1", ";", "N", "2", ";", "A", "O", "1">>,
        <<>>,
        <<>>)

PhaseRequests == {RequestPhases, RequestLastAdvance, RequestDrain}

NextPhases ==
    \/ \E request \in PhaseRequests : create_jobs(1, request)
    \/ scheduler_step(1)
    \/ Elapse(MaxPhaseTime)

\* One run of the scheduler on each request of PhaseRequests.
SpecPhases == Init /\ [][NextPhases]_vars

\* ------------------------------------------------------------------ claims

\* The end of operation i of a timeline, in seconds from the simulation start.
RECURSIVE CumulativeEnd(_, _)
CumulativeEnd(operations, i) ==
    IF i = 0 THEN 0 ELSE CumulativeEnd(operations, i - 1) + operations[i].duration

ExampleOperations ==
    <<[type |-> N, duration |-> 100],
      [type |-> AO, duration |-> 50],
      [type |-> N, duration |-> 200]>>

\* C1: for a non-empty timeline and an elapsed time t >= 0 the lookup returns
\* the first operation, with its index, whose cumulative end is strictly after
\* t, and the last operation when there is none; "N100;AO50;N200" gives
\* Normal(100) on [0,100), AdvanceOrder(50) on [100,150) and Normal(200) from
\* 150 s on, 350 s and later included.
C1_CurrentOperation ==
    (probe.fn = "lookup" /\ probe.result # <<>>) =>
        LET operations == probe.operations
            t == probe.elapsed
            operation == probe.result[1]
            index == probe.result[2]
            later == {j \in DOMAIN operations :
                         CumulativeEnd(operations, j) * TicksPerSecond > t}
        IN  /\ index \in DOMAIN operations
            /\ operation = operations[index]
            /\ IF later = {} THEN index = Len(operations)
               ELSE index \in later /\ \A j \in later : index <= j
            /\ probe.duration_string = Example =>
                   /\ operations = ExampleOperations
                   /\ index = IF t < 100 * TicksPerSecond THEN 1
                              ELSE IF t < 150 * TicksPerSecond THEN 2
                              ELSE 3

\* The example is looked up at exactly 100 s: the Advance-order phase.
C1_Witness ==
    /\ probe.fn = "lookup"
    /\ probe.duration_string = Example
    /\ probe.elapsed = 100 * TicksPerSecond
    /\ probe.result = <<[type |-> AO, duration |-> 50], 2>>

\* The time at which the timeline of run r is over.
PlannedEnd(r) ==
    run[r].simulation_start_time
        + CumulativeEnd(run[r].operations, Len(run[r].operations)) * TicksPerSecond

\* The positions of a background task after its loop.
ExitedPositions == {"exit_close", "exit_tc", "done"}

C2_ExitOrder ==
    \A r \in Runs :
        /\ database[r].end_updates <= 1
        /\ database[r].closes <= database[r].end_updates
        /\ tc_stop_calls[r] <= database[r].closes
        /\ pc[r] = "exit_close" => database[r].end_updates = 1
        /\ pc[r] = "exit_tc" => database[r].closes = 1
        /\ pc[r] = "done" => tc_stop_calls[r] = 1
        /\ pc[r] \notin ExitedPositions => database[r].end_updates = 0

C2_LoopCondition ==
    \A r \in Runs :
        /\ (pc[r] = "cond" /\ pc'[r] # "cond") =>
               IF ~job_creation_status.stop_requested /\ now <= PlannedEnd(r)
               THEN pc'[r] = "branch"
               ELSE pc'[r] = "exit"
        /\ (pc[r] # "branch" /\ pc'[r] = "branch") => pc[r] = "cond"
        /\ (pc[r] # "exit" /\ pc'[r] = "exit") => pc[r] = "cond"

\* C2: a tick starts only while the stop flag is false and the clock is at
\* most simulation start + the sum of the durations; when the condition fails
\* the loop exits, and then the end timestamp is persisted, the connection is
\* closed and the stop-cycle call is sent to TC, in this order, once each.
C2_Termination == [][C2_LoopCondition]_vars /\ []C2_ExitOrder

\* A run whose timeline ran out has gone through its whole exit sequence.
C2_Witness ==
    /\ pc[1] = "done"
    /\ ~job_creation_status.stop_requested
    /\ now > PlannedEnd(1)
    /\ database[1].end_updates = 1
    /\ database[1].closes = 1
    /\ tc_stop_calls[1] = 1

\* C3: once a stop is requested while a tick of a run is executing, no
\* further tick of that run begins.
C3_NoTickAfterStop ==
    [][\A r \in Runs : stop_pending[r] => ~(pc[r] = "cond" /\ pc'[r] = "branch")]_vars

\* A run that has been started and has not yet left its loop.
in_progress(r) == pc[r] \in {"queued", "cond"} \cup TickPositions

\* C4: for the lifetime of a run the stop flag it reads only goes from false
\* to true: a stop requested while a run is in progress is not undone before
\* that run observes it, whatever other runs are started or stopped.
C4_StopFlagMonotone ==
    [][\A r \in Runs :
          (in_progress(r) /\ job_creation_status.stop_requested)
              => job_creation_status'.stop_requested]_vars

\* C5: a stop-cycle call to TC is made on every exit path of a run, the abort
\* by a fatal error raised inside the loop included.
C5_StopCycleOnEveryExit ==
    \A r \in Runs : pc[r] \in {"done", "aborted"} => tc_stop_calls[r] >= 1

\* C6: a run aborted by a fatal error inside the loop has its start timestamp
\* persisted, and neither an end timestamp nor the "Simulation ends" entry;
\* an end timestamp is persisted only after the loop was left because of the
\* stop flag or because the timeline ran out.
C6_AbortedRunHasNoEnd ==
    \A r \in Runs :
        /\ (pc[r] = "aborted" \/ error[r] # "") =>
               /\ pc[r] = "aborted"
               /\ database[r].start_timestamp # Unset
               /\ database[r].end_timestamp = Unset
               /\ database[r].end_updates = 0
               /\ ~database[r].simulation_ends_logged
        /\ database[r].end_timestamp # Unset =>
               /\ pc[r] \in ExitedPositions
               /\ error[r] = ""
               /\ job_creation_status.stop_requested \/ now > PlannedEnd(r)

\* A run has been aborted by a fatal error, its start timestamp persisted.
C6_Witness ==
    /\ pc[1] = "aborted"
    /\ error[1] = "RemoteCallFailed"
    /\ database[1].start_timestamp # Unset
    /\ database[1].end_timestamp = Unset

\* How many times bin b stands in a station's list.
Count(bins, b) == Cardinality({j \in DOMAIN bins : bins[j] = b})

\* The station of run r a request names.
station_of(r, request) ==
    CHOOSE i \in DOMAIN body[r].stations : body[r].stations[i].code = request.station

last_sent(requests) == requests[Len(requests)]

\* C7: a bin leaves a station's list only with a store request for that bin
\* at that station, sent just before in the same tick and sent once in it;
\* nothing else leaves the list with it.
C7_BinConservation ==
    [][\A r \in Runs : \A i \in DOMAIN station[r] \cap DOMAIN station'[r] :
          LET before == station[r][i].bins
              after == station'[r][i].bins
              store(b) == [op |-> "store",
                           station |-> body[r].stations[i].code,
                           storages |-> <<b>>]
          IN  (before # <<>> /\ after # before) =>
                  \E b \in Range(before) :
                      /\ \A c \in Inventory :
                             Count(after, c) = Count(before, c) - (IF c = b THEN 1 ELSE 0)
                      /\ sent'[r] = Append(sent[r], store(b))
                      /\ Cardinality({j \in DOMAIN sent'[r] : sent'[r][j] = store(b)}) = 1
      ]_vars

\* A bin has just been stored and has left its station's list.
C7_Witness ==
    /\ pc[1] \in TickPositions
    /\ error[1] = ""
    /\ sent[1] # <<>>
    /\ last_sent(sent[1]).op = "store"
    /\ last_sent(sent[1]).storages[1]
           \notin Range(station[1][station_of(1, last_sent(sent[1]))].bins)

\* The bins of every station of a run stay as they are.
bins_unchanged(r) ==
    /\ DOMAIN station'[r] = DOMAIN station[r]
    /\ \A i \in DOMAIN station[r] : station'[r][i].bins = station[r][i].bins

\* A store request has just been sent for a bin that is not in the list of
\* the station it names: the station reported a bin it was not assigned.
foreign_bin_reported(r) ==
    /\ Len(sent'[r]) = Len(sent[r]) + 1
    /\ last_sent(sent'[r]).op = "store"
    /\ last_sent(sent'[r]).storages[1]
           \notin Range(station[r][station_of(r, last_sent(sent'[r]))].bins)

\* C8: when a station reports at-station-work a bin that is not in its list,
\* its ready time passed, the scheduler raises in that very status check, no
\* bin leaves any station's list, and the run is aborted for good: nothing is
\* retried and nothing more is sent.
C8_ConsistencyViolationIsFatal ==
    [][\A r \in Runs :
          /\ foreign_bin_reported(r) =>
                 /\ pc'[r] = "aborted"
                 /\ error'[r] \in {"ConsistencyViolation", "RemoteCallFailed"}
                 /\ bins_unchanged(r)
          /\ (error[r] = "" /\ error'[r] = "ConsistencyViolation") =>
                 /\ foreign_bin_reported(r)
                 /\ pc'[r] = "aborted"
                 /\ bins_unchanged(r)
          /\ pc[r] = "aborted" =>
                 /\ pc'[r] = "aborted"
                 /\ error'[r] = error[r]
                 /\ station'[r] = station[r]
                 /\ sent'[r] = sent[r]
      ]_vars

\* A run has been aborted by the report of a bin its station did not hold.
C8_Witness ==
    /\ pc[1] = "aborted"
    /\ error[1] = "ConsistencyViolation"
    /\ last_sent(sent[1]).op = "store"
    /\ last_sent(sent[1]).storages[1]
           \notin Range(station[1][station_of(1, last_sent(sent[1]))].bins)

\* Every station of the group has been served.
split_done == probe.fn = "split" /\ Len(probe.received) = probe.k

lengths(lists) == [j \in DOMAIN lists |-> Len(lists[j])]

\* min(ceil(N/k), bins still remaining) for station j, given what the
\* stations before it took.
even_share(number_of_bins, k, taken, j) ==
    Min(Ceil(number_of_bins, k), number_of_bins - SumSeq(SubSeq(taken, 1, j - 1)))

RECURSIVE concat(_)
concat(lists) == IF lists = <<>> THEN <<>> ELSE Head(lists) \o concat(Tail(lists))

no_bin_twice(bins) == \A i, j \in DOMAIN bins : bins[i] = bins[j] => i = j

\* C9 as stated: on both paths every station receives min(ceil(N/k), bins
\* still remaining), the stations receive N bins in all, and no bin is given
\* twice.
C9_EvenSplit ==
    split_done =>
        /\ \A j \in 1..probe.k :
               Len(probe.received[j])
                   = even_share(probe.number_of_bins, probe.k, lengths(probe.received), j)
        /\ SumSeq(lengths(probe.received)) = probe.number_of_bins
        /\ no_bin_twice(concat(probe.received))

\* C9: an advance order of N bins is cut into min(ceil(N/k), bins still
\* remaining) bins per station, the shares put together being the order itself
\* (7 bins over 2 stations: 4 then 3). Of N fresh bins each station requests
\* min(ceil(N/k), bins still remaining), N in all, and receives at most what
\* it requested, at least one bin when it requested any, none of them twice.
C9_EvenSplitOfRequest ==
    probe.fn = "split" =>
        /\ (probe.path = "advance" /\ split_done) =>
               /\ \A j \in 1..probe.k :
                      Len(probe.received[j])
                          = even_share(probe.number_of_bins, probe.k,
                                       lengths(probe.received), j)
               /\ concat(probe.received) = order_of_bins(probe.number_of_bins)
               /\ (probe.number_of_bins = 7 /\ probe.k = 2) =>
                      lengths(probe.received) = <<4, 3>>
        /\ probe.path = "fresh" =>
               /\ \A j \in DOMAIN probe.requested :
                      probe.requested[j]
                          = even_share(probe.number_of_bins, probe.k, probe.requested, j)
               /\ Len(probe.requested) = probe.k =>
                      SumSeq(probe.requested) = probe.number_of_bins
               /\ \A j \in DOMAIN probe.received :
                      /\ Len(probe.received[j]) <= probe.requested[j]
                      /\ probe.requested[j] >= 1 => Len(probe.received[j]) >= 1
                      /\ no_bin_twice(probe.received[j])

\* An advance order of 7 bins has been shared by 2 stations.
C9_Witness ==
    /\ probe.fn = "split"
    /\ probe.path = "advance"
    /\ probe.number_of_bins = 7
    /\ probe.k = 2
    /\ probe.received = <<<<1, 2, 3, 4>>, <<5, 6, 7>>>>

\* The order map of one direction among the locals of a run.
orders_of(locals, dir) ==
    IF dir = "inbound" THEN locals.inbound_advance_orders
    ELSE locals.outbound_advance_orders

\* The bins the stations hold, one station after the other.
RECURSIVE bins_held(_, _)
bins_held(stations, members) ==
    IF members = <<>> THEN <<>>
    ELSE stations[Head(members)].bins \o bins_held(stations, Tail(members))

\* The order at place j of the map leaves it and is shared by one group.
consumed_by_one_group(r, dir, j) ==
    LET before == orders_of(run[r], dir)
        after == orders_of(run'[r], dir)
        changed == {i \in DOMAIN station[r] : station'[r][i] # station[r][i]}
    IN  /\ \A q \in DOMAIN before : before[j].stamp <= before[q].stamp
        /\ after = SelectSeq(before, LAMBDA item : item.name # before[j].name)
        /\ Len(after) = Len(before) - 1
        /\ run[r].last_consumed[dir] < before[j].stamp
        /\ run'[r].last_consumed[dir] = before[j].stamp
        /\ \E g \in DOMAIN body[r].station_groups :
               LET members == group_stations(body[r], g)
               IN  /\ changed \subseteq Range(members)
                   /\ direction(group_type(body[r], g)) = dir
                   /\ bins_held(station[r], members) = <<>>
                   /\ bins_held(station'[r], members) = before[j].bins
                   /\ \A i \in Range(members) :
                          station'[r][i].advance_order_name = before[j].name

\* C10: an order leaves the advance-order map of its direction only in the
\* refill of a group of that direction, it is then the one inserted earliest
\* among those in the map, inserted after every order consumed before it, and
\* its bins go to the stations of that one group.
C10_OldestOrderFirst ==
    [][\A r \in Runs : \A dir \in {"inbound", "outbound"} :
          Len(orders_of(run'[r], dir)) < Len(orders_of(run[r], dir)) =>
              \E j \in DOMAIN orders_of(run[r], dir) : consumed_by_one_group(r, dir, j)
      ]_vars

\* Of two inbound orders the first inserted has been consumed, the second is
\* still in the map.
C10_Witness ==
    /\ run[1].last_consumed["inbound"] = 1
    /\ Len(run[1].inbound_advance_orders) = 1
    /\ run[1].inbound_advance_orders[1].stamp = 2

\* A call of _get_bins_from_order has returned and its caller has not yet
\* gone on.
bins_returned == probe.fn = "bins" /\ probe.status = "returned"

\* C11: a result of _get_bins_from_order never holds two bins of the same
\* code, whatever the layers returned: it is the bins collected, each code
\* once.
C11_NoDuplicateCodes ==
    bins_returned =>
        /\ no_bin_twice(probe.result)
        /\ Range(probe.result) = Range(probe.bins)

\* The layers gave the same code twice and the result has it once.
C11_Witness ==
    /\ bins_returned
    /\ probe.bins = <<1, 1>>
    /\ probe.result = <<1>>

\* C12: a call for one bin or more ends with a result of at least one bin
\* whenever some layer of the inventory has a bin.
C12_BinWhenAvailable ==
    (/\ probe.fn = "bins"
     /\ probe.number_of_bins >= 1
     /\ \E layer \in Layers : probe.inventory[layer] # <<>>) =>
        /\ probe.status # "raised"
        /\ probe.status = "returned" => Len(probe.result) >= 1

\* C13: a call for one bin or more makes at most max_retries attempts, returns
\* at the first attempt that yields a bin, and raises exactly when max_retries
\* attempts have all yielded none; the caller does not catch the exception:
\* its run is aborted with it.
C13_Attempts ==
    (probe.fn = "bins" /\ probe.number_of_bins >= 1) =>
        /\ probe.attempts <= max_retries
        /\ probe.status = "sampling" =>
               /\ probe.attempts = probe.retry_count
               /\ probe.retry_count < max_retries
               /\ probe.bins = <<>>
        /\ probe.status = "returned" =>
               /\ probe.attempts = probe.retry_count + 1
               /\ Len(probe.bins) >= 1
        /\ probe.status = "raised" =>
               /\ probe.attempts = max_retries
               /\ probe.retry_count = max_retries
               /\ probe.bins = <<>>
               /\ pc[probe.caller] \in {"fetch", "aborted"}
               /\ pc[probe.caller] = "aborted" => error[probe.caller] = "InventoryExhausted"

C13_Propagation ==
    \A r \in Runs :
        /\ (pc[r] = "fetch" /\ pc'[r] # "fetch" /\ probe.status = "raised") =>
               /\ pc'[r] = "aborted"
               /\ error'[r] = "InventoryExhausted"
        /\ (error[r] = "" /\ error'[r] = "InventoryExhausted") =>
               /\ probe.fn = "bins" /\ probe.caller = r /\ probe.status = "raised"
               /\ pc'[r] = "aborted"
        /\ pc[r] = "aborted" => (pc'[r] = "aborted" /\ error'[r] = error[r])

C13_BoundedRetry == []C13_Attempts /\ [][C13_Propagation]_vars

\* Twenty attempts found no bin and the run is aborted.
C13_Witness ==
    /\ probe.fn = "bins"
    /\ probe.status = "raised"
    /\ probe.attempts = max_retries
    /\ pc[1] = "aborted"
    /\ error[1] = "InventoryExhausted"

\* C14: a call for less than one bin returns the empty sequence at once: no
\* attempt is made, no layer request is sent, nothing is raised.
C14_NoBinAsked ==
    (probe.fn = "bins" /\ probe.number_of_bins < 1) =>
        /\ probe.status = "returned"
        /\ probe.result = <<>>
        /\ probe.attempts = 0
        /\ probe.fetches = 0
        /\ error[probe.caller] = ""

\* A station asks for no bin and gets none.
C14_Witness ==
    /\ probe.fn = "bins"
    /\ probe.number_of_bins = 0
    /\ probe.status = "returned"
    /\ probe.result = <<>>
    /\ pc[1] = "fetch"

C15_Downgrade ==
    /\ \A r \in Runs : error[r] = "RemoteCallFailed" => pc[r] = "aborted"
    /\ (probe.fn = "bins" /\ probe.failed > 0) =>
           /\ error[probe.caller] # "RemoteCallFailed"
           /\ probe.status \in {"sampling", "returned"} =>
                  (pc[probe.caller] = "fetch" /\ error[probe.caller] = "")
           /\ probe.failed = probe.fetches =>
                  (probe.bins = <<>> /\ probe.retry_count = probe.attempts)

C15_Fatal ==
    \A r \in Runs :
        /\ (error[r] = "" /\ error'[r] = "RemoteCallFailed") =>
               /\ pc[r] \in {"ao_create", "call", "poll"}
               /\ pc'[r] = "aborted"
        /\ pc[r] = "aborted" =>
               /\ pc'[r] = "aborted"
               /\ error'[r] = error[r]
               /\ sent'[r] = sent[r]

\* C15: a failed call-bins, store-bin, station-status or advance-order request
\* raises out of the scheduler, which neither catches nor retries it: the run
\* is aborted and sends nothing more. A failed layer request inside
\* _get_bins_from_order only leaves its layer without bins: the call goes on,
\* an attempt with nothing but failed requests counts as a retry, and the run
\* continues.
C15_RemoteFailurePolicy == []C15_Downgrade /\ [][C15_Fatal]_vars

\* A layer request failed, the other layer gave a bin, and the run goes on.
C15_Witness ==
    /\ probe.fn = "bins"
    /\ probe.failed >= 1
    /\ probe.status = "returned"
    /\ Len(probe.result) >= 1
    /\ pc[1] = "fetch"
    /\ error[1] = ""


\* The orders _create_advance_orders was asked for, of one kind, in the
\* Advance-order branch of run r.
orders_asked(r, orders_per_hour) ==
    number_of_orders_for_AO(r, run[r].current_operation_index, orders_per_hour)

\* All the calls of _create_advance_orders of the branch have returned.
orders_created(r) ==
    /\ pc[r] = "ao_create"
    /\ run[r].inbound_left = 0
    /\ run[r].outbound_left = 0

\* C16: _create_advance_orders(number_of_orders, number_of_bins_per_order)
\* returns a mapping of exactly number_of_orders orders, each under a name of
\* its own.
C16_ExactlyCountOrders ==
    \A r \in Runs :
        orders_created(r) =>
            /\ Len(run[r].new_inbound) =
                   orders_asked(r, body[r].parameters.inbound_orders_per_hour)
            /\ Len(run[r].new_outbound) =
                   orders_asked(r, body[r].parameters.outbound_orders_per_hour)
            /\ \A i, j \in DOMAIN run[r].new_inbound :
                   i # j => run[r].new_inbound[i].name # run[r].new_inbound[j].name


\* The stations of run r whose type is neither "I" nor "O".
other_kind(r) ==
    {i \in DOMAIN body[r].stations : body[r].stations[i].type \notin {"I", "O"}}

\* C17: a station whose type is neither "I" nor "O" is never assigned a bin,
\* and no request is ever sent to SM for it, whatever the order maps hold.
C17_OtherKindNeverServed ==
    \A r \in Runs : \A i \in other_kind(r) :
        /\ i \in DOMAIN station[r] => station[r][i].bins = <<>>
        /\ \A n \in DOMAIN sent[r] : sent[r][n].station # body[r].stations[i].code

\* The run has aborted with InvalidStationType, nothing assigned or sent.
C17_InvalidTypeAborts ==
    /\ pc[1] = "aborted"
    /\ error[1] = "InvalidStationType"
    /\ other_kind(1) # {}
    /\ sent[1] = <<>>


\* a - b > tolerance, for fractions a and b and a tolerance in units
exceeds(a, b, tolerance) ==
    (a[1] * b[2] - b[1] * a[2]) * UnitsPerOne > tolerance * a[2] * b[2]

\* Strictly between 0 and 1.
inside(fraction) == less(<<0, 1>>, fraction) /\ less(fraction, <<1, 1>>)

\* get_alpha has returned for a p and a q in (0, 1), default tolerance.
alpha_returned ==
    /\ probe.fn = "alpha"
    /\ probe.status = "returned"
    /\ probe.tolerance = tolerance_default
    /\ inside(probe.p)
    /\ inside(probe.q)

\* C18: for p and q in (0, 1) and the default tolerance and search range,
\* get_alpha returns an alpha with |cdf(x0, alpha) - p| <= tolerance. Stated
\* through the values of cdf at the whole numbers around alpha, between which
\* cdf(x0, alpha) lies: neither is p above the upper one by more than the
\* tolerance, nor below the lower one by more than the tolerance.
C18_AlphaMeetsTolerance ==
    alpha_returned =>
        /\ ~exceeds(probe.p, cdf_at(ceiling(probe.alpha)), probe.tolerance)
        /\ ~exceeds(cdf_at(floor(probe.alpha)), probe.p, probe.tolerance)

\* abs(right - left) of the bracket
width(bracket) == abs(bracket.right - bracket.left)

\* C19: for every p and q in [0, 1] and every tolerance > 0, each iteration
\* of the bisection narrows the bracket, to half its width (up to the rounding
\* of the midpoint), so that the loop ends.
C19_BracketHalves ==
    [][(probe.fn = "alpha" /\ probe'.fn = "alpha"
            /\ probe'.iterations = probe.iterations + 1) =>
           /\ width(probe') < width(probe)
           /\ 2 * width(probe') <= width(probe) + Ulp]_vars


\* The Advance-order branch of run r completes in this step.
advance_order_branch_ends(r) == pc[r] = "ao_create" /\ pc'[r] = "sleep"

\* A branch of the iteration is entered in this step.
branch_entered(r) == pc[r] = "branch" /\ pc'[r] \in {"ao_create", "group", "tail"}

\* C20, the gate: the Advance-order branch of an operation whose cumulative
\* end is E leaves next_check_time at the start of the simulation plus E.
C20_GateSet ==
    \A r \in Runs :
        advance_order_branch_ends(r) =>
            /\ run[r].operations[run[r].current_operation_index].type = AO
            /\ run'[r].next_check_time =
                   run[r].simulation_start_time
                       + CumulativeEnd(run[r].operations, run[r].current_operation_index)
                             * TicksPerSecond

\* C20, the gate holds: no branch is entered in a tick that starts before
\* next_check_time, and next_check_time stays as it is until a branch
\* completes (or the run starts).
C20_GateHolds ==
    \A r \in Runs :
        /\ branch_entered(r) => run[r].loop_start_time >= run[r].next_check_time
        /\ run'[r].next_check_time # run[r].next_check_time =>
               pc[r] \in {"queued", "ao_create", "tail"}

\* C20: after the Advance-order branch has run in an Advance-order operation
\* of cumulative end E, next_check_time is the simulation start plus E, and
\* neither branch runs in a later tick that starts before E.
C20_AdvanceOrderGate == [][C20_GateSet /\ C20_GateHolds]_vars

\* The Advance-order branch has created its orders, and a later tick that
\* started before the end of the operation has taken neither branch.
C20_Witness ==
    /\ pc[1] = "sleep"
    /\ error[1] = ""
    /\ run[1].inbound_advance_orders # <<>>
    /\ run[1].operations[run[1].current_operation_index].type = AO
    /\ run[1].next_check_time =
           run[1].simulation_start_time
               + CumulativeEnd(run[1].operations, run[1].current_operation_index)
                     * TicksPerSecond
    /\ run[1].loop_start_time > run[1].simulation_start_time
    /\ run[1].loop_start_time < run[1].next_check_time


\* The kind of the operation the tick of run r found current.
kind(r) == run[r].operations[run[r].current_operation_index].type

\* The groups of run r that station i belongs to.
groups_of(r, i) ==
    {g \in DOMAIN body[r].station_groups : i \in Range(group_stations(body[r], g))}

\* C21: a station's list goes from empty to non-empty only while its group is
\* processed in a tick whose operation is Normal, every station of the group
\* being empty at that moment; and in a tick whose operation is Advance-order
\* no list grows or gains a bin.
C21_RefillGating ==
    [][\A r \in Runs : \A i \in DOMAIN station[r] \cap DOMAIN station'[r] :
          /\ (station[r][i].bins = <<>> /\ station'[r][i].bins # <<>>) =>
                 /\ pc[r] = "group"
                 /\ kind(r) = N
                 /\ run[r].g \in groups_of(r, i)
                 /\ \A j \in Range(group_stations(body[r], run[r].g)) :
                        station[r][j].bins = <<>>
          /\ (in_tick(r) /\ pc[r] # "branch" /\ kind(r) = AO) =>
                 /\ Len(station'[r][i].bins) <= Len(station[r][i].bins)
                 /\ Range(station'[r][i].bins) \subseteq Range(station[r][i].bins)]_vars

\* A station has shed a bin in a draining tick of an Advance-order operation,
\* while another group of the run stands empty and is not refilled.
C21_Witness ==
    /\ pc[1] = "tail"
    /\ kind(1) = AO
    /\ sent[1] # <<>>
    /\ last_sent(sent[1]).op = "store"
    /\ \E g \in DOMAIN body[1].station_groups :
           \A j \in Range(group_stations(body[1], g)) : station[1][j].bins = <<>>


\* all(len(station.bins) == 0 for station in station_list), as a claim reads it
every_list_empty(r) == \A i \in DOMAIN station[r] : station[r][i].bins = <<>>

\* C22, the flag: the end of a Normal-branch tick leaves
\* is_all_orders_completed equal to (every list is empty and the operation is
\* not Normal), and no other step changes it.
C22_FlagRecomputed ==
    \A r \in Runs :
        /\ (pc[r] = "tail" /\ pc'[r] = "sleep") =>
               run'[r].is_all_orders_completed = (every_list_empty(r) /\ kind(r) # N)
        /\ run'[r].is_all_orders_completed # run[r].is_all_orders_completed =>
               pc[r] = "tail"

\* C22, the consequence: while the Advance-order branch runs every station's
\* list is empty.
C22_EmptyInAdvanceOrder ==
    \A r \in Runs : pc[r] = "ao_create" => every_list_empty(r)

\* C22: is_all_orders_completed is recomputed at the end of every
\* Normal-branch tick and nowhere else, so that every list is empty whenever
\* the Advance-order branch runs.
C22_AllOrdersCompleted == []C22_EmptyInAdvanceOrder /\ [][C22_FlagRecomputed]_vars

\* The Advance-order branch runs after the Normal operation has ended and a
\* Normal-branch tick has found every list empty.
C22_Witness ==
    /\ pc[1] = "ao_create"
    /\ run[1].normal_operation_start_time # Unset
    /\ run[1].is_all_orders_completed
    /\ run[1].is_normal_operation_ending
    /\ DOMAIN station[1] # {}


\* A store request is sent for station i of run r in this step.
store_sent(r, i) ==
    /\ Len(sent'[r]) = Len(sent[r]) + 1
    /\ last_sent(sent'[r]).op = "store"
    /\ last_sent(sent'[r]).station = body[r].stations[i].code

\* The handling time of the kind of station i, in clock ticks.
handling_time(r, i) ==
    TicksPerSecond * (IF body[r].stations[i].type = "I"
                      THEN body[r].parameters.inbound_time
                      ELSE body[r].parameters.outbound_time)

normal_branch_entered(r) == pc[r] = "branch" /\ pc'[r] \in {"group", "tail"}

\* The operation found current in this step is not the one of the tick before.
operation_changes(r) == run'[r].current_operation_index # run[r].current_operation_index

\* C24: the first tick of a Normal operation, taking the Normal-operation
\* branch, sets normal_operation_start_time to its loop_start_time and clears
\* is_normal_operation_ending.
C24_FreshPhaseStart ==
    [][\A r \in Runs :
          (/\ normal_branch_entered(r)
           /\ operation_changes(r)
           /\ run'[r].operations[run'[r].current_operation_index].type = N) =>
              /\ run'[r].normal_operation_start_time = run[r].loop_start_time
              /\ ~run'[r].is_normal_operation_ending]_vars


\* The Normal operation whose phase a tick of run r belongs to: the operation
\* found current when it is Normal, the last Normal operation before it when
\* the tick drains.
phase_operation(r) ==
    LET normal == {n \in 1..run[r].current_operation_index :
                      run[r].operations[n].type = N}
    IN  CHOOSE n \in normal : \A q \in normal : q <= n

\* C25: is_normal_operation_ending becomes true only at the end of a
\* Normal-branch tick, the loop index going back to 0, and only when the time
\* since normal_operation_start_time is at least the duration of the Normal
\* operation of the phase.
C25_DrainingTrigger ==
    [][\A r \in Runs :
          (~run[r].is_normal_operation_ending /\ run'[r].is_normal_operation_ending) =>
              /\ pc[r] = "tail"
              /\ run'[r].normal_operation_loop_index = 0
              /\ now - run[r].normal_operation_start_time >=
                     run[r].operations[phase_operation(r)].duration * TicksPerSecond]_vars


\* The Advance-order branch of run r is entered in this step.
advance_order_branch_entered(r) == pc[r] = "branch" /\ pc'[r] = "ao_create"

\* The clock ticks from now to the cumulative end of the operation the step
\* found current.
remaining(r) ==
    run[r].simulation_start_time
        + CumulativeEnd(run[r].operations, run'[r].current_operation_index) * TicksPerSecond
        - now

\* n = ceil(orders_per_hour * seconds / 3600), the seconds given in ticks
is_ceiling(n, orders_per_hour, ticks) ==
    /\ n * 3600 * TicksPerSecond >= orders_per_hour * ticks
    /\ (n - 1) * 3600 * TicksPerSecond < orders_per_hour * ticks

\* C26 as stated: the Advance-order branch creates
\* ceil(orders_per_hour * remaining / 3600) inbound and outbound orders,
\* remaining being the seconds from now to the end of the operation.
C26_OrdersForRemaining ==
    [][\A r \in Runs :
          advance_order_branch_entered(r) =>
              /\ is_ceiling(run'[r].inbound_left,
                            body[r].parameters.inbound_orders_per_hour, remaining(r))
              /\ is_ceiling(run'[r].outbound_left,
                            body[r].parameters.outbound_orders_per_hour, remaining(r))]_vars

\* C26 (amended): the Advance-order branch creates
\* ceil(orders_per_hour * remaining / 3600) inbound and outbound orders,
\* remaining being the seconds from now to the end of the operation and at
\* least one second.
C26_OrdersForRemainingAtLeastOneSecond ==
    [][\A r \in Runs :
          advance_order_branch_entered(r) =>
              /\ is_ceiling(run'[r].inbound_left,
                            body[r].parameters.inbound_orders_per_hour,
                            Max(remaining(r), TicksPerSecond))
              /\ is_ceiling(run'[r].outbound_left,
                            body[r].parameters.outbound_orders_per_hour,
                            Max(remaining(r), TicksPerSecond))]_vars

\* The Advance-order branch has just started with no time left in its
\* operation, and one inbound order to create.
C26_Witness ==
    /\ pc[1] = "ao_create"
    /\ run[1].loop_start_time = now
    /\ now = run[1].simulation_start_time
                 + CumulativeEnd(run[1].operations, run[1].current_operation_index)
                       * TicksPerSecond
    /\ body[1].parameters.inbound_orders_per_hour > 0
    /\ run[1].inbound_left = 1
    /\ run[1].new_inbound = <<>>


\* C27: no bin is in the lists of two different stations of a run at once.
C27_NoBinAtTwoStations ==
    \A r \in Runs : \A i, j \in DOMAIN station[r] :
        i # j => Range(station[r][i].bins) \cap Range(station[r][j].bins) = {}

\* C28: a store request is sent only for a bin that is in the list of the
\* station the request names.
C28_StoreOnlyAssignedBins ==
    [][\A r \in Runs : \A i \in DOMAIN station[r] \cap DOMAIN station'[r] :
          store_sent(r, i) =>
              last_sent(sent'[r]).storages[1] \in Range(station[r][i].bins)]_vars


\* C29: the Advance-order branch is entered at most once for each
\* Advance-order operation of the timeline, the last one included.
C29_AdvanceOrderOnce ==
    [][\A r \in Runs :
          advance_order_branch_entered(r) =>
              run'[r].current_operation_index \notin run[r].advance_order_ran]_vars


\* C30, the first Normal-branch tick: entered with no start time recorded
\* yet, it finds a Normal operation and the loop index 0, and records the
\* start time.
C30_FirstNormalTick ==
    \A r \in Runs :
        (normal_branch_entered(r) /\ run[r].normal_operation_start_time = Unset) =>
            /\ run'[r].operations[run'[r].current_operation_index].type = N
            /\ run[r].normal_operation_loop_index = 0
            /\ run'[r].normal_operation_start_time = run[r].loop_start_time

\* C30, the draining check: inside a Normal-branch tick the start time is set.
C30_StartTimeSet ==
    \A r \in Runs :
        pc[r] \in {"group", "call", "poll", "tail"} =>
            /\ run[r].normal_operation_start_time # Unset
            /\ error[r] # "UnboundLocalError"

\* C30: normal_operation_start_time is assigned before it is read: the first
\* tick that takes the Normal-operation branch finds a Normal operation and
\* the loop index 0, whatever the timeline, and the check at the end of a
\* Normal-branch tick never reads an unset start time.
C30_StartTimeAssignedBeforeRead == []C30_StartTimeSet /\ [][C30_FirstNormalTick]_vars

\* The first Normal-branch tick of a timeline that begins with an
\* Advance-order operation is at its end, the start time just recorded.
C30_Witness ==
    /\ pc[1] = "tail"
    /\ run[1].advance_order_ran # {}
    /\ kind(1) = N
    /\ run[1].normal_operation_loop_index = 0
    /\ run[1].normal_operation_start_time = run[1].loop_start_time
    /\ run[1].normal_operation_start_time > run[1].simulation_start_time

====
